---- MODULE Spec2Model ----
(***************************************************************************)
(* A state-machine model of the benchmark harness                          *)
(* (python/performance/benchmark.py, class DatabaseBenchmark) and of the   *)
(* retention cleanup of the backup automation                              *)
(* (python/automation/backup_automation.py, class DatabaseBackupAutomation)*)
(*                                                                         *)
(* Time is counted in clock ticks.  For the benchmark one tick is one      *)
(* second of time.time(); a timing sample is (end - start) * 1000.         *)
(* Fractional results (avg_time_ms, std_dev_ms, queries_per_second) are    *)
(* exact rationals [num, den] in lowest terms; std_dev_ms is carried as    *)
(* its square, the sample variance, which is 0 exactly when the standard   *)
(* deviation is 0.                                                         *)
(***************************************************************************)
EXTENDS Integers, Sequences, FiniteSets, TLC

(***************************************************************************)
(* Bounds of the model.                                                    *)
(***************************************************************************)
MaxIter == 2
MaxUsers == 2
MaxQueries == 2
MaxDuration == 2
MaxEntries == 2
MaxRetention == 1
TicksPerDay == 2
MaxParams == 1
MaxSamples == 10

\* Seconds one query execution (or one transaction) may take.
Durations == {1, 2}
\* Messages of the exceptions the driver or the transaction function raises.
Msgs == {"ORA-00942", "ORA-03113"}
\* Query strings a caller passes.
QueryNames == {"q1", "q2"}

MsPerSecond == 1000

NoExc == [site |-> "none", msg |-> ""]
NoResult == [none |-> TRUE]
\* Python's None, as a returned value.
PyNone == [py_none |-> TRUE]
NoCall == [method |-> "none", query |-> "", queries |-> <<>>, iterations |-> 0,
           concurrent_users |-> 0, iterations_per_user |-> 0, duration_seconds |-> 0]

(***************************************************************************)
(* Arithmetic helpers.                                                     *)
(***************************************************************************)
RECURSIVE GCD(_, _)
GCD(a, b) == IF b = 0 THEN a ELSE GCD(b, a % b)

Abs(x) == IF x < 0 THEN -x ELSE x

\* The exact quotient n / d, d > 0, in lowest terms.
Rat(n, d) ==
    LET g == GCD(Abs(n), d)
    IN  [num |-> n \div g, den |-> d \div g]

Zero == [num |-> 0, den |-> 1]

RECURSIVE Sum(_)
Sum(s) == IF s = <<>> THEN 0 ELSE Head(s) + Sum(Tail(s))

RECURSIVE SumSq(_)
SumSq(s) == IF s = <<>> THEN 0 ELSE Head(s) * Head(s) + SumSq(Tail(s))

Range(s) == {s[k] : k \in DOMAIN s}

Min(s) == CHOOSE x \in Range(s) : \A y \in Range(s) : x <= y

Max(s) == CHOOSE x \in Range(s) : \A y \in Range(s) : x >= y

\* statistics.mean of a non-empty list.
Mean(s) == Rat(Sum(s), Len(s))

\* The square of statistics.stdev of a list of at least two values.
Variance(s) == Rat(Len(s) * SumSq(s) - Sum(s) * Sum(s), Len(s) * (Len(s) - 1))

StdDev(s) == IF Len(s) > 1 THEN Variance(s) ELSE Zero

\* (end_time - start_time) * 1000
ToMs(d) == d * MsPerSecond

RECURSIVE SumValues(_, _)
SumValues(f, keys) ==
    IF keys = {} THEN 0
    ELSE LET k == CHOOSE x \in keys : TRUE
         IN  f[k] + SumValues(f, keys \ {k})

\* sum(query_counts.values())
SumCounts(f) == SumValues(f, DOMAIN f)

SeqsUpTo(S, n) == UNION {[1..k -> S] : k \in 0..n}

(***************************************************************************)
(* State.                                                                  *)
(*   call             the method being run and its arguments               *)
(*   pc               the calling thread's position in that method         *)
(*   i                the loop index of the calling thread                 *)
(*   execution_times  execution_times / all_times                          *)
(*   exc              the exception in flight on the calling thread        *)
(*   result           the dictionary returned                              *)
(*   calls            per thread (0: the caller, w: worker w), the number  *)
(*                    of driver or transaction-function calls it has made  *)
(*   executed         per thread, the number of cursor.execute calls (or   *)
(*                    transaction_func calls) it has started               *)
(*   cursors          cursors opened and closed on the connection          *)
(*   workers          per submitted work item: its state, loop index,      *)
(*                    local list times and the exception it ended with     *)
(*   consumed         the futures whose result() the caller has taken      *)
(*   now              the clock read by time.time()                        *)
(*   start_time, end_time, query_counts   locals of run_load_test          *)
(*   fs               the entries of backup_dir: absent, a file, or a      *)
(*                    directory with its creation time                     *)
(*   fs0              fs as it was when the cleanup pass began             *)
(*   retention_days   self.retention_days                                  *)
(*   clock            datetime.datetime.now(), in ticks                    *)
(*   cpc              the position of _cleanup_old_backups                 *)
(*   cutoff_date, listing, idx   its locals: the cutoff, the os.listdir    *)
(*                    result and the place of the for loop in it           *)
(*   cleanup_exc      the call that raised inside the pass, or "none"      *)
(*   cleanup_result   what _cleanup_old_backups returned                   *)
(*   backup_call      the backup or restore method being run, its name     *)
(*   bpc              the position in that method                          *)
(*   proc             the outcome of subprocess.run, of the pyodbc calls   *)
(*                    or of the tar archive                                *)
(*   backup_exc       the exception in flight in the method                *)
(*   backup_result    the dictionary built and returned                    *)
(*   log_file         the lines of self.log_file                           *)
(*   log_calls        the calls of _log_backup                             *)
(*   log_failures     the calls of _log_backup whose write failed          *)
(*   cx_oracle_imported   whether "import cx_Oracle" succeeded             *)
(*   cursor_obj       self.cursor of the object the body runs on           *)
(*   db_call          the executor call being run and its arguments        *)
(*   dpc              the position in that call                            *)
(*   stmt             the statement passed to cursor.execute               *)
(*   commits, rollbacks   the calls of connection.commit and .rollback     *)
(*   db_return        the value returned                                   *)
(*   db_exc           the exception in flight or raised to the caller      *)
(*   pyodbc_imported  whether "import pyodbc" succeeded                    *)
(*   apc              the position in connect_windows_auth                 *)
(*   attempts         the pyodbc.connect calls made and how each ended     *)
(*   conn_result      the connection returned                              *)
(*   conn_exc         the exception connect_windows_auth raised            *)
(*   sklearn_imported whether "from sklearn.linear_model import ..."       *)
(*                    succeeded                                            *)
(*   performance_data the caller's sample collection                       *)
(*   tpc              the position in the TrendAnalyzer call               *)
(*   trend_op         the method called                                    *)
(*   risk_arg         the cpu_trend argument of _assess_cpu_risk           *)
(*   trend_result     the value returned                                   *)
(***************************************************************************)
VARIABLES call, pc, i, execution_times, exc, result, calls, executed, cursors,
          workers, consumed, now, start_time, end_time, query_counts,
          fs, fs0, retention_days, clock, cpc, cutoff_date, listing, idx,
          cleanup_exc, cleanup_result,
          backup_call, bpc, proc, backup_exc, backup_result, log_file,
          log_calls, log_failures,
          cx_oracle_imported, cursor_obj, db_call, dpc, stmt, commits,
          rollbacks, db_return, db_exc,
          pyodbc_imported, apc, attempts, conn_result, conn_exc,
          sklearn_imported, performance_data, tpc, trend_op, risk_arg,
          trend_result

benchVars == <<call, pc, i, execution_times, exc, result, calls, executed, cursors,
               workers, consumed, now, start_time, end_time, query_counts>>
backupVars == <<fs, fs0, retention_days, clock, cpc, cutoff_date, listing, idx,
                cleanup_exc, cleanup_result>>
runVars == <<backup_call, bpc, proc, backup_exc, backup_result, log_file,
             log_calls, log_failures>>
executorVars == <<cx_oracle_imported, cursor_obj, db_call, dpc, stmt, commits,
                  rollbacks, db_return, db_exc>>
authVars == <<pyodbc_imported, apc, attempts, conn_result, conn_exc>>
dbVars == <<executorVars, authVars>>
trendVars == <<sklearn_imported, performance_data, tpc, trend_op, risk_arg,
               trend_result>>
restVars == <<dbVars, trendVars>>
otherVars == <<runVars, restVars>>
nonDbVars == <<benchVars, backupVars, runVars, trendVars>>
nonTrendVars == <<benchVars, backupVars, runVars, dbVars>>
vars == <<benchVars, backupVars, otherVars>>

Actors == 0..MaxUsers
WorkerIds == 1..MaxUsers

IdleWorker == [st |-> "unsubmitted", i |-> 0, times |-> <<>>, msg |-> ""]

(***************************************************************************)
(* The dictionaries the four methods return.                               *)
(***************************************************************************)
SuccessResultSingle(c, times) ==
    [query |-> c.query, iterations |-> c.iterations,
     avg_time_ms |-> Mean(times), min_time_ms |-> Min(times),
     max_time_ms |-> Max(times), std_dev_ms |-> StdDev(times),
     total_time_ms |-> Sum(times)]

ErrorResultSingleKeepsCount(c, msg) ==
    [query |-> c.query, error |-> msg, iterations |-> c.iterations,
     avg_time_ms |-> Zero, min_time_ms |-> 0, max_time_ms |-> 0,
     std_dev_ms |-> Zero, total_time_ms |-> 0]

ErrorResultSingle(c, msg) ==
    [query |-> c.query, error |-> msg, iterations |-> 0,
     avg_time_ms |-> Zero, min_time_ms |-> 0, max_time_ms |-> 0,
     std_dev_ms |-> Zero, total_time_ms |-> 0]

SuccessResultConcurrent(c, times) ==
    [query |-> c.query, concurrent_users |-> c.concurrent_users,
     iterations_per_user |-> c.iterations_per_user,
     total_iterations |-> c.concurrent_users * c.iterations_per_user,
     avg_time_ms |-> Mean(times), min_time_ms |-> Min(times),
     max_time_ms |-> Max(times), std_dev_ms |-> StdDev(times),
     total_time_ms |-> Sum(times)]

ErrorResultConcurrent(c, msg) ==
    [query |-> c.query, concurrent_users |-> c.concurrent_users,
     iterations_per_user |-> c.iterations_per_user, error |-> msg,
     total_iterations |-> 0,
     avg_time_ms |-> Zero, min_time_ms |-> 0, max_time_ms |-> 0,
     std_dev_ms |-> Zero, total_time_ms |-> 0]

SuccessResultTransaction(c, times) ==
    [test_type |-> "custom_transaction", iterations |-> c.iterations,
     avg_time_ms |-> Mean(times), min_time_ms |-> Min(times),
     max_time_ms |-> Max(times), std_dev_ms |-> StdDev(times),
     total_time_ms |-> Sum(times)]

ErrorResultTransaction(c, msg) ==
    [test_type |-> "custom_transaction", iterations |-> c.iterations,
     error |-> msg,
     avg_time_ms |-> Zero, min_time_ms |-> 0, max_time_ms |-> 0,
     std_dev_ms |-> Zero, total_time_ms |-> 0]

\* total_queries / duration_seconds, duration_seconds > 0
QueriesPerSecond(total_queries, duration_seconds) ==
    Rat(total_queries, duration_seconds)

SuccessResultLoad(c, times, counts) ==
    [test_type |-> "load_test", duration_seconds |-> c.duration_seconds,
     total_queries |-> SumCounts(counts),
     queries_per_second |-> QueriesPerSecond(SumCounts(counts), c.duration_seconds),
     avg_time_ms |-> Mean(times), min_time_ms |-> Min(times),
     max_time_ms |-> Max(times), std_dev_ms |-> StdDev(times),
     query_counts |-> counts]

ErrorResultLoad(c, msg) ==
    [test_type |-> "load_test", duration_seconds |-> c.duration_seconds,
     error |-> msg, total_queries |-> 0, queries_per_second |-> Zero,
     avg_time_ms |-> Zero, min_time_ms |-> 0, max_time_ms |-> 0,
     std_dev_ms |-> Zero, query_counts |-> <<>>]

ErrorResult(c, msg) ==
    CASE c.method = "single" -> ErrorResultSingle(c, msg)
      [] c.method = "concurrent" -> ErrorResultConcurrent(c, msg)
      [] c.method = "transaction" -> ErrorResultTransaction(c, msg)
      [] c.method = "load" -> ErrorResultLoad(c, msg)

SuccessResult(c, times, counts) ==
    CASE c.method = "single" -> SuccessResultSingle(c, times)
      [] c.method = "concurrent" -> SuccessResultConcurrent(c, times)
      [] c.method = "transaction" -> SuccessResultTransaction(c, times)
      [] c.method = "load" -> SuccessResultLoad(c, times, counts)

(***************************************************************************)
(* Where each method can raise, by source line, and the lines its          *)
(* try block covers.                                                       *)
(***************************************************************************)
SiteLine ==
    [single |-> [cursor |-> 31, execute |-> 35, fetchall |-> 36, close |-> 41,
                 reduce |-> 46],
     concurrent |-> [pool |-> 85, result |-> 89, reduce |-> 97],
     transaction |-> [transaction_func |-> 125, reduce |-> 133],
     load |-> [cursor |-> 164, execute |-> 165, fetchall |-> 166, close |-> 167,
               divide |-> 174, reduce |-> 181]]

TryBody ==
    [single |-> [first |-> 29, last |-> 51],
     concurrent |-> [first |-> 69, last |-> 102],
     transaction |-> [first |-> 121, last |-> 138],
     load |-> [first |-> 155, last |-> 186]]

\* A try that is entered only once the cursor is open.
TryCoversAfterCursor(method, site) ==
    /\ SiteLine[method][site] \in TryBody[method].first..TryBody[method].last
    /\ site # "cursor"

\* Whether an exception raised at the site is caught by the method's except.
TryCovers(method, site) ==
    SiteLine[method][site] \in TryBody[method].first..TryBody[method].last

\* range(n) has a next element after i elements were taken
LoopContinuesInclusive(k, n) == k <= n

LoopContinues(k, n) == k < n

\* An exception raised on the calling thread at the site.
RaiseMain(site, msg) ==
    /\ exc' = [site |-> site, msg |-> msg]
    /\ pc' = IF TryCovers(call.method, site) THEN "except" ELSE "propagated"

Bump(f, a, n) == [f EXCEPT ![a] = @ + n]

\* Messages of the exceptions the standard library raises.
MeanOfEmpty == "mean requires at least one data point"
DivisionByZero == "division by zero"
BadPoolSize == "max_workers must be greater than 0"

InitBench ==
    /\ call = NoCall
    /\ pc = "idle"
    /\ i = 0
    /\ execution_times = <<>>
    /\ exc = NoExc
    /\ result = NoResult
    /\ calls = [a \in Actors |-> 0]
    /\ executed = [a \in Actors |-> 0]
    /\ cursors = [opened |-> 0, closed |-> 0]
    /\ workers = [w \in WorkerIds |-> IdleWorker]
    /\ consumed = {}
    /\ now = 0
    /\ start_time = 0
    /\ end_time = 0
    /\ query_counts = <<>>

(***************************************************************************)
(* run_single_query_test(query, iterations)                                *)
(***************************************************************************)
CallSingle ==
    /\ pc = "idle"
    /\ \E q \in QueryNames, n \in 0..MaxIter :
          call' = [NoCall EXCEPT !.method = "single", !.query = q, !.iterations = n]
    /\ pc' = "cursor"
    /\ UNCHANGED <<i, execution_times, exc, result, calls, executed, cursors,
                   workers, consumed, now, start_time, end_time, query_counts>>
    /\ UNCHANGED <<backupVars, otherVars>>

\* cursor = self.connection.cursor()
SingleCursor ==
    /\ pc = "cursor" /\ call.method = "single"
    /\ calls' = Bump(calls, 0, 1)
    /\ \/ /\ cursors' = [cursors EXCEPT !.opened = @ + 1]
          /\ pc' = "loop"
          /\ UNCHANGED exc
       \/ /\ \E m \in Msgs : RaiseMain("cursor", m)
          /\ UNCHANGED cursors
    /\ UNCHANGED <<call, i, execution_times, result, executed, workers, consumed,
                   now, start_time, end_time, query_counts>>
    /\ UNCHANGED <<backupVars, otherVars>>

\* One pass of the for loop: execute, fetchall, append the timing.
SingleIter ==
    /\ pc = "loop" /\ call.method = "single"
    /\ LoopContinues(i, call.iterations)
    /\ executed' = Bump(executed, 0, 1)
    /\ \/ \E d \in Durations :
            /\ execution_times' = Append(execution_times, ToMs(d))
            /\ now' = now + d
            /\ i' = i + 1
            /\ calls' = Bump(calls, 0, 2)
            /\ UNCHANGED <<pc, exc>>
       \/ /\ \E m \in Msgs : RaiseMain("execute", m)
          /\ calls' = Bump(calls, 0, 1)
          /\ UNCHANGED <<execution_times, now, i>>
       \/ /\ \E m \in Msgs : RaiseMain("fetchall", m)
          /\ calls' = Bump(calls, 0, 2)
          /\ UNCHANGED <<execution_times, now, i>>
    /\ UNCHANGED <<call, result, cursors, workers, consumed, start_time, end_time,
                   query_counts>>
    /\ UNCHANGED <<backupVars, otherVars>>

\* The loop is exhausted: cursor.close()
SingleClose ==
    /\ pc = "loop" /\ call.method = "single"
    /\ ~LoopContinues(i, call.iterations)
    /\ calls' = Bump(calls, 0, 1)
    /\ \/ /\ cursors' = [cursors EXCEPT !.closed = @ + 1]
          /\ pc' = "reduce"
          /\ UNCHANGED exc
       \/ /\ \E m \in Msgs : RaiseMain("close", m)
          /\ UNCHANGED cursors
    /\ UNCHANGED <<call, i, execution_times, result, executed, workers, consumed,
                   now, start_time, end_time, query_counts>>
    /\ UNCHANGED <<backupVars, otherVars>>

(***************************************************************************)
(* run_transaction_test(transaction_func, iterations)                      *)
(***************************************************************************)
CallTransaction ==
    /\ pc = "idle"
    /\ \E n \in 0..MaxIter :
          call' = [NoCall EXCEPT !.method = "transaction", !.iterations = n]
    /\ pc' = "loop"
    /\ UNCHANGED <<i, execution_times, exc, result, calls, executed, cursors,
                   workers, consumed, now, start_time, end_time, query_counts>>
    /\ UNCHANGED <<backupVars, otherVars>>

\* One pass of the for loop: transaction_func(), append the timing.
TransactionIter ==
    /\ pc = "loop" /\ call.method = "transaction"
    /\ LoopContinues(i, call.iterations)
    /\ executed' = Bump(executed, 0, 1)
    /\ calls' = Bump(calls, 0, 1)
    /\ \/ \E d \in Durations :
            /\ execution_times' = Append(execution_times, ToMs(d))
            /\ now' = now + d
            /\ i' = i + 1
            /\ UNCHANGED <<pc, exc>>
       \/ /\ \E m \in Msgs : RaiseMain("transaction_func", m)
          /\ UNCHANGED <<execution_times, now, i>>
    /\ UNCHANGED <<call, result, cursors, workers, consumed, start_time, end_time,
                   query_counts>>
    /\ UNCHANGED <<backupVars, otherVars>>

TransactionLoopExit ==
    /\ pc = "loop" /\ call.method = "transaction"
    /\ ~LoopContinues(i, call.iterations)
    /\ pc' = "reduce"
    /\ UNCHANGED <<call, i, execution_times, exc, result, calls, executed, cursors,
                   workers, consumed, now, start_time, end_time, query_counts>>
    /\ UNCHANGED <<backupVars, otherVars>>

(***************************************************************************)
(* run_load_test(queries, duration_seconds)                                *)
(***************************************************************************)
CallLoad ==
    /\ pc = "idle"
    /\ \E qs \in SeqsUpTo(QueryNames, MaxQueries), d \in 0..MaxDuration :
          call' = [NoCall EXCEPT !.method = "load", !.queries = qs,
                                 !.duration_seconds = d]
    /\ pc' = "start"
    /\ UNCHANGED <<i, execution_times, exc, result, calls, executed, cursors,
                   workers, consumed, now, start_time, end_time, query_counts>>
    /\ UNCHANGED <<backupVars, otherVars>>

\* start_time, end_time, query_counts, execution_times
LoadStart ==
    /\ pc = "start" /\ call.method = "load"
    /\ start_time' = now
    /\ end_time' = now + call.duration_seconds
    /\ query_counts' = [q \in Range(call.queries) |-> 0]
    /\ execution_times' = <<>>
    /\ pc' = "while"
    /\ UNCHANGED <<call, i, exc, result, calls, executed, cursors, workers, consumed,
                   now>>
    /\ UNCHANGED <<backupVars, otherVars>>

WhileCondInclusive(t, deadline) == t <= deadline

\* while time.time() < end_time
WhileCond(t, deadline) == t < deadline

EmptyPassTakesNoTime(t, d) == t

\* time.time() at the next while test, after a for loop over an empty query
\* list that took d
EmptyPass(t, d) == t + d

\* The while test.  A pass over an empty query list only lets the clock run.
LoadWhile ==
    /\ pc = "while" /\ call.method = "load"
    /\ IF WhileCond(now, end_time)
       THEN IF call.queries = <<>>
            THEN /\ \E d \in Durations : now' = EmptyPass(now, d)
                 /\ UNCHANGED <<pc, i>>
            ELSE /\ pc' = "for"
                 /\ i' = 1
                 /\ UNCHANGED now
       ELSE /\ pc' = "reduce"
            /\ UNCHANGED <<now, i>>
    /\ UNCHANGED <<call, execution_times, exc, result, calls, executed, cursors,
                   workers, consumed, start_time, end_time, query_counts>>
    /\ UNCHANGED <<backupVars, otherVars>>

CountQueryOnce(counts, q) == [counts EXCEPT ![q] = 1]

\* query_counts[query] += 1
CountQuery(counts, q) == [counts EXCEPT ![q] = @ + 1]

\* One pass of the for loop over queries: cursor, execute, fetchall, close.
LoadQuery ==
    /\ pc = "for" /\ call.method = "load"
    /\ \/ \E d \in Durations :
            /\ now' = now + d
            /\ cursors' = [opened |-> cursors.opened + 1, closed |-> cursors.closed + 1]
            /\ calls' = Bump(calls, 0, 4)
            /\ executed' = Bump(executed, 0, 1)
            /\ query_counts' = CountQuery(query_counts, call.queries[i])
            /\ execution_times' = Append(execution_times, ToMs(d))
            /\ IF i < Len(call.queries)
               THEN i' = i + 1 /\ UNCHANGED pc
               ELSE pc' = "while" /\ UNCHANGED i
            /\ UNCHANGED exc
       \/ /\ \E m \in Msgs : RaiseMain("cursor", m)
          /\ calls' = Bump(calls, 0, 1)
          /\ UNCHANGED <<now, cursors, executed, query_counts, execution_times, i>>
       \/ /\ \E m \in Msgs : RaiseMain("execute", m)
          /\ calls' = Bump(calls, 0, 2)
          /\ cursors' = [cursors EXCEPT !.opened = @ + 1]
          /\ executed' = Bump(executed, 0, 1)
          /\ UNCHANGED <<now, query_counts, execution_times, i>>
       \/ /\ \E m \in Msgs : RaiseMain("fetchall", m)
          /\ calls' = Bump(calls, 0, 3)
          /\ cursors' = [cursors EXCEPT !.opened = @ + 1]
          /\ executed' = Bump(executed, 0, 1)
          /\ UNCHANGED <<now, query_counts, execution_times, i>>
       \/ /\ \E m \in Msgs : RaiseMain("close", m)
          /\ calls' = Bump(calls, 0, 4)
          /\ cursors' = [cursors EXCEPT !.opened = @ + 1]
          /\ executed' = Bump(executed, 0, 1)
          /\ UNCHANGED <<now, query_counts, execution_times, i>>
    /\ UNCHANGED <<call, result, workers, consumed, start_time, end_time>>
    /\ UNCHANGED <<backupVars, otherVars>>

(***************************************************************************)
(* run_concurrent_test(query, concurrent_users, iterations_per_user)       *)
(***************************************************************************)
CallConcurrent ==
    /\ pc = "idle"
    /\ \E q \in QueryNames, u \in 0..MaxUsers, n \in 0..MaxIter :
          call' = [NoCall EXCEPT !.method = "concurrent", !.query = q,
                                 !.concurrent_users = u, !.iterations_per_user = n]
    /\ pc' = "pool"
    /\ UNCHANGED <<i, execution_times, exc, result, calls, executed, cursors,
                   workers, consumed, now, start_time, end_time, query_counts>>
    /\ UNCHANGED <<backupVars, otherVars>>

\* ThreadPoolExecutor(max_workers=concurrent_users) refuses a size below 1.
ConcurrentPool ==
    /\ pc = "pool" /\ call.method = "concurrent"
    /\ IF call.concurrent_users <= 0
       THEN RaiseMain("pool", BadPoolSize)
       ELSE pc' = "submit" /\ UNCHANGED exc
    /\ UNCHANGED <<call, i, execution_times, result, calls, executed, cursors,
                   workers, consumed, now, start_time, end_time, query_counts>>
    /\ UNCHANGED <<backupVars, otherVars>>

\* futures = [executor.submit(execute_user_query, i) for i in range(concurrent_users)]
ConcurrentSubmit ==
    /\ pc = "submit" /\ call.method = "concurrent"
    /\ IF LoopContinues(i, call.concurrent_users)
       THEN /\ workers' = [workers EXCEPT ![i + 1].st = "queued"]
            /\ i' = i + 1
            /\ UNCHANGED pc
       ELSE /\ pc' = "collect"
            /\ UNCHANGED <<workers, i>>
    /\ UNCHANGED <<call, execution_times, exc, result, calls, executed, cursors,
                   consumed, now, start_time, end_time, query_counts>>
    /\ UNCHANGED <<backupVars, otherVars>>

WorkerFails(w, m) ==
    workers' = [workers EXCEPT ![w] = [st |-> "failed", i |-> @.i, times |-> <<>>,
                                       msg |-> m]]

\* execute_user_query: times = [], cursor = self.connection.cursor()
WorkerCursor(w) ==
    /\ workers[w].st = "queued"
    /\ calls' = Bump(calls, w, 1)
    /\ \/ /\ cursors' = [cursors EXCEPT !.opened = @ + 1]
          /\ workers' = [workers EXCEPT ![w].st = "loop"]
       \/ /\ \E m \in Msgs : WorkerFails(w, m)
          /\ UNCHANGED cursors
    /\ UNCHANGED <<call, pc, i, execution_times, exc, result, executed, consumed,
                   now, start_time, end_time, query_counts>>
    /\ UNCHANGED <<backupVars, otherVars>>

\* execute_user_query: one pass of the for loop
WorkerIter(w) ==
    /\ workers[w].st = "loop"
    /\ LoopContinues(workers[w].i, call.iterations_per_user)
    /\ executed' = Bump(executed, w, 1)
    /\ \/ \E d \in Durations :
            /\ workers' = [workers EXCEPT ![w].times = Append(@, ToMs(d)),
                                          ![w].i = @ + 1]
            /\ calls' = Bump(calls, w, 2)
       \/ /\ \E m \in Msgs : WorkerFails(w, m)
          /\ calls' = Bump(calls, w, 1)
       \/ /\ \E m \in Msgs : WorkerFails(w, m)
          /\ calls' = Bump(calls, w, 2)
    /\ UNCHANGED <<call, pc, i, execution_times, exc, result, cursors, consumed,
                   now, start_time, end_time, query_counts>>
    /\ UNCHANGED <<backupVars, otherVars>>

\* execute_user_query: cursor.close(); return times
WorkerClose(w) ==
    /\ workers[w].st = "loop"
    /\ ~LoopContinues(workers[w].i, call.iterations_per_user)
    /\ calls' = Bump(calls, w, 1)
    /\ \/ /\ cursors' = [cursors EXCEPT !.closed = @ + 1]
          /\ workers' = [workers EXCEPT ![w].st = "done"]
       \/ /\ \E m \in Msgs : WorkerFails(w, m)
          /\ UNCHANGED cursors
    /\ UNCHANGED <<call, pc, i, execution_times, exc, result, executed, consumed,
                   now, start_time, end_time, query_counts>>
    /\ UNCHANGED <<backupVars, otherVars>>

Finished(wrec) == wrec.st \in {"done", "failed"}

FutureNeverRaises(wrec) == FALSE

\* future.result() re-raises the exception the work item ended with.
FutureRaises(wrec) == wrec.st = "failed"

PoolTimesOverwrite(all_times, user_times) == user_times

PoolTimesTwice(all_times, user_times) == all_times \o user_times \o user_times

\* all_times.extend(user_times)
PoolTimes(all_times, user_times) == all_times \o user_times

\* for future in as_completed(futures): one finished future not yet taken
ConcurrentCollect(w) ==
    /\ pc = "collect" /\ call.method = "concurrent"
    /\ w \in 1..call.concurrent_users
    /\ w \notin consumed
    /\ Finished(workers[w])
    /\ consumed' = consumed \cup {w}
    /\ IF FutureRaises(workers[w])
       THEN /\ exc' = [site |-> "result", msg |-> workers[w].msg]
            /\ pc' = "shutdown"
            /\ UNCHANGED execution_times
       ELSE /\ execution_times' = PoolTimes(execution_times, workers[w].times)
            /\ UNCHANGED <<pc, exc>>
    /\ UNCHANGED <<call, i, result, calls, executed, cursors, workers, now,
                   start_time, end_time, query_counts>>
    /\ UNCHANGED <<backupVars, otherVars>>

\* as_completed is exhausted
ConcurrentCollected ==
    /\ pc = "collect" /\ call.method = "concurrent"
    /\ consumed = 1..call.concurrent_users
    /\ pc' = "shutdown"
    /\ UNCHANGED <<call, i, execution_times, exc, result, calls, executed, cursors,
                   workers, consumed, now, start_time, end_time, query_counts>>
    /\ UNCHANGED <<backupVars, otherVars>>

ShutdownNoWait(ws, n) == TRUE

\* The with block's exit, executor.shutdown(wait=True), returns once every
\* submitted work item has run to its end.
ShutdownMayReturn(ws, n) == \A w \in 1..n : Finished(ws[w])

ConcurrentShutdown ==
    /\ pc = "shutdown" /\ call.method = "concurrent"
    /\ ShutdownMayReturn(workers, i)
    /\ pc' = IF exc = NoExc THEN "reduce"
             ELSE IF TryCovers(call.method, exc.site) THEN "except"
             ELSE "propagated"
    /\ UNCHANGED <<call, i, execution_times, exc, result, calls, executed, cursors,
                   workers, consumed, now, start_time, end_time, query_counts>>
    /\ UNCHANGED <<backupVars, otherVars>>

(***************************************************************************)
(* The return statement of the try body and the except clause.             *)
(***************************************************************************)
\* statistics.mean raises on an empty list; the load test divides first.
Reduce ==
    /\ pc = "reduce"
    /\ IF call.method = "load" /\ call.duration_seconds = 0
       THEN RaiseMain("divide", DivisionByZero) /\ UNCHANGED result
       ELSE IF execution_times = <<>>
       THEN RaiseMain("reduce", MeanOfEmpty) /\ UNCHANGED result
       ELSE /\ result' = SuccessResult(call, execution_times, query_counts)
            /\ pc' = "returned"
            /\ UNCHANGED exc
    /\ UNCHANGED <<call, i, execution_times, calls, executed, cursors, workers,
                   consumed, now, start_time, end_time, query_counts>>
    /\ UNCHANGED <<backupVars, otherVars>>

\* except Exception as e: return {..., 'error': str(e), ...}
Except ==
    /\ pc = "except"
    /\ result' = ErrorResult(call, exc.msg)
    /\ pc' = "returned"
    /\ UNCHANGED <<call, i, execution_times, exc, calls, executed, cursors, workers,
                   consumed, now, start_time, end_time, query_counts>>
    /\ UNCHANGED <<backupVars, otherVars>>

(***************************************************************************)
(* DatabaseBackupAutomation._cleanup_old_backups                           *)
(***************************************************************************)
Entries == 1..MaxEntries

Absent == [kind |-> "absent", ctime |-> 0]
File == [kind |-> "file", ctime |-> 0]
Dir(t) == [kind |-> "dir", ctime |-> t]

\* The clock when the pass runs: late enough for every retention window.
ClockAtCleanup == MaxRetention * TicksPerDay + 1

EntryStates == {Absent, File} \cup {Dir(t) : t \in 0..ClockAtCleanup}

InitBackup ==
    /\ fs \in [Entries -> EntryStates]
    /\ fs0 = fs
    /\ retention_days \in 0..MaxRetention
    /\ clock = ClockAtCleanup
    /\ cpc = "idle"
    /\ cutoff_date = 0
    /\ listing = <<>>
    /\ idx = 1
    /\ cleanup_exc = "none"
    /\ cleanup_result = NoResult

\* os.listdir returns the entries in an arbitrary order.
Listings(f) ==
    LET present == {e \in Entries : f[e].kind # "absent"}
    IN  {s \in [1..Cardinality(present) -> present] :
            \A a, b \in DOMAIN s : a # b => s[a] # s[b]}

\* datetime.timedelta(days=self.retention_days)
RetentionTicks(days) == days * TicksPerDay

IsOldInclusive(creation_time, cutoff) == creation_time <= cutoff

\* creation_time < cutoff_date
IsOld(creation_time, cutoff) == creation_time < cutoff

\* cutoff_date = now - timedelta(days=retention_days); os.listdir(backup_dir)
CleanupBegin ==
    /\ cpc = "idle"
    /\ cutoff_date' = clock - RetentionTicks(retention_days)
    /\ \/ /\ listing' \in Listings(fs)
          /\ cpc' = "loop"
          /\ UNCHANGED cleanup_exc
          /\ UNCHANGED cleanup_result
       \/ /\ cleanup_exc' = "listdir"
          /\ cpc' = "done"
          /\ cleanup_result' = PyNone
          /\ UNCHANGED listing
    /\ UNCHANGED <<fs, fs0, retention_days, clock, idx>>
    /\ UNCHANGED <<benchVars, runVars, restVars>>

\* One pass of the for loop over the listing.
CleanupStep ==
    /\ cpc = "loop"
    /\ idx <= Len(listing)
    /\ LET e == listing[idx]
       IN  \/ /\ fs[e].kind # "dir"
              /\ idx' = idx + 1
              /\ UNCHANGED <<fs, cpc, cleanup_exc, cleanup_result>>
           \/ /\ fs[e].kind = "dir"
              /\ ~IsOld(fs[e].ctime, cutoff_date)
              /\ idx' = idx + 1
              /\ UNCHANGED <<fs, cpc, cleanup_exc, cleanup_result>>
           \/ /\ fs[e].kind = "dir"
              /\ IsOld(fs[e].ctime, cutoff_date)
              /\ fs' = [fs EXCEPT ![e] = Absent]
              /\ idx' = idx + 1
              /\ UNCHANGED <<cpc, cleanup_exc, cleanup_result>>
           \/ /\ fs[e].kind = "dir"
              /\ IsOld(fs[e].ctime, cutoff_date)
              /\ cleanup_exc' = "rmtree"
              /\ cpc' = "done"
              /\ cleanup_result' = PyNone
              /\ UNCHANGED <<fs, idx>>
           \/ /\ fs[e].kind = "dir"
              /\ cleanup_exc' = "getctime"
              /\ cpc' = "done"
              /\ cleanup_result' = PyNone
              /\ UNCHANGED <<fs, idx>>
    /\ UNCHANGED <<fs0, retention_days, clock, cutoff_date, listing>>
    /\ UNCHANGED <<benchVars, runVars, restVars>>

\* The listing is exhausted: the method ends without a return statement.
CleanupEnd ==
    /\ cpc = "loop"
    /\ idx > Len(listing)
    /\ cpc' = "done"
    /\ cleanup_result' = PyNone
    /\ UNCHANGED <<fs, fs0, retention_days, clock, cutoff_date, listing, idx,
                   cleanup_exc>>
    /\ UNCHANGED <<benchVars, runVars, restVars>>

(***************************************************************************)
(* DatabaseBackupAutomation: backup_oracle_database,                       *)
(* backup_sql_server_database, backup_filesystem, restore_oracle_database  *)
(* and _log_backup                                                         *)
(***************************************************************************)
BackupOps == {"oracle", "sqlserver", "filesystem"}
Ops == BackupOps \cup {"restore"}

\* The entries of backup_dir are interchangeable: one of them is the name
\* the call is given.
BackupNames == {1}

\* Ticks that pass while the external work runs, and while the log is
\* written.
Elapsed == {0, 1}

ReturnCodes == {0, 1}
StderrTexts == {"", "ORA-39002: invalid operation"}

\* subprocess.run(..., timeout=3600) and subprocess.run(..., timeout=7200)
BackupTimeout == 3600
RestoreTimeout == 7200

Timeout(op) == IF op = "restore" THEN RestoreTimeout ELSE BackupTimeout

NoBackupCall == [op |-> "none", name |-> 0]
NoProc == [kind |-> "none"]

\* What the external work of the method can do: expdp and impdp exit with
\* a return code, run past the timeout or cannot be started; the pyodbc
\* calls and the tar archive succeed or raise.
ProcOutcomes(op) ==
    IF op \in {"oracle", "restore"}
    THEN {[kind |-> "exit", returncode |-> rc, stdout |-> "Job completed",
           stderr |-> err] : rc \in ReturnCodes, err \in StderrTexts}
         \cup {[kind |-> "raise", exc |-> "TimeoutExpired"],
               [kind |-> "raise", exc |-> "FileNotFoundError"]}
    ELSE IF op = "sqlserver"
    THEN {[kind |-> "ok"], [kind |-> "raise", exc |-> "pyodbc.Error"]}
    ELSE {[kind |-> "ok"], [kind |-> "raise", exc |-> "FileNotFoundError"]}

\* str(e)
StrOf(e, op) ==
    IF e = "TimeoutExpired"
    THEN IF Timeout(op) = BackupTimeout
         THEN "Command timed out after 3600 seconds"
         ELSE "Command timed out after 7200 seconds"
    ELSE e

ExceptCatchesOSError(e) == e \in {"FileExistsError", "FileNotFoundError"}

\* except Exception as e
ExceptCatches(e) ==
    e \in {"FileExistsError", "FileNotFoundError", "TimeoutExpired",
           "pyodbc.Error"}

SucceededNonNegative(returncode) == returncode >= 0

\* result.returncode == 0
Succeeded(returncode) == returncode = 0

\* result.stderr if result.returncode != 0 else None
ErrorOf(p) == IF p.returncode # 0 THEN p.stderr ELSE PyNone

\* _get_directory_size(backup_path), os.path.getsize(tar_path): the units
\* the work has written
Written(p) == IF p.kind = "ok" \/ (p.kind = "exit" /\ p.returncode = 0)
              THEN 1 ELSE 0

\* backup_info and restore_info
InfoOf(c, p, t0, t1) ==
    IF c.op = "oracle"
    THEN [backup_type |-> "oracle", backup_name |-> c.name,
          start_time |-> t0, end_time |-> t1, duration_seconds |-> t1 - t0,
          backup_path |-> c.name, success |-> Succeeded(p.returncode),
          output |-> p.stdout, error |-> ErrorOf(p),
          file_size |-> Written(p)]
    ELSE IF c.op = "sqlserver"
    THEN [backup_type |-> "sqlserver", backup_name |-> c.name,
          database |-> "db", server |-> "srv",
          start_time |-> t0, end_time |-> t1, duration_seconds |-> t1 - t0,
          backup_path |-> c.name, success |-> TRUE, backup_file |-> c.name]
    ELSE IF c.op = "filesystem"
    THEN [backup_type |-> "filesystem", backup_name |-> c.name,
          source_path |-> "src",
          start_time |-> t0, end_time |-> t1, duration_seconds |-> t1 - t0,
          backup_path |-> c.name, success |-> TRUE, backup_file |-> c.name,
          file_size |-> Written(p)]
    ELSE [restore_type |-> "oracle", backup_name |-> c.name,
          start_time |-> t0, end_time |-> t1, duration_seconds |-> t1 - t0,
          success |-> Succeeded(p.returncode), output |-> p.stdout,
          error |-> ErrorOf(p)]

\* error_info, and the dictionary restore_oracle_database returns from its
\* except clause
ErrorInfoOf(c, e) ==
    IF c.op = "oracle"
    THEN [backup_type |-> "oracle", backup_name |-> c.name,
          error |-> StrOf(e, c.op), success |-> FALSE]
    ELSE IF c.op = "sqlserver"
    THEN [backup_type |-> "sqlserver", backup_name |-> c.name,
          database |-> "db", error |-> StrOf(e, c.op), success |-> FALSE]
    ELSE IF c.op = "filesystem"
    THEN [backup_type |-> "filesystem", backup_name |-> c.name,
          source_path |-> "src", error |-> StrOf(e, c.op),
          success |-> FALSE]
    ELSE [success |-> FALSE, error |-> StrOf(e, c.op)]

\* {'success': False, 'error': f'Backup {backup_name} not found'}
NotFoundInfo == [success |-> FALSE, error |-> "Backup not found"]

WriteNothing(f, info) == f

\* f.write(json.dumps(backup_info) + '\n') on the file opened with 'a'
WriteRecord(f, info) == Append(f, info)

\* _log_backup(info): the record is appended, or the write raises and the
\* method prints the failure and returns.
LogBackup(info) ==
    /\ log_calls' = log_calls + 1
    /\ \/ /\ log_file' = WriteRecord(log_file, info)
          /\ UNCHANGED log_failures
       \/ /\ log_failures' = log_failures + 1
          /\ UNCHANGED log_file

\* backup_dir before the call: each entry is absent, a file, a directory
\* older than every retention window or a directory created just now.
RunEntryStates == {Absent, File, Dir(0), Dir(ClockAtCleanup)}

InitBackupDir ==
    /\ fs \in [Entries -> RunEntryStates]
    /\ fs0 = fs
    /\ retention_days \in 0..MaxRetention
    /\ clock = ClockAtCleanup
    /\ cpc = "unstarted"
    /\ cutoff_date = 0
    /\ listing = <<>>
    /\ idx = 1
    /\ cleanup_exc = "none"
    /\ cleanup_result = NoResult

IdleRun ==
    /\ backup_call = NoBackupCall
    /\ bpc = "idle"
    /\ proc = NoProc
    /\ backup_exc = ""
    /\ backup_result = NoResult
    /\ log_file = <<>>
    /\ log_calls = 0
    /\ log_failures = 0

\* The caller invokes one of the four methods.
BackupCall(op, name) ==
    /\ bpc = "idle"
    /\ backup_call' = [op |-> op, name |-> name]
    /\ bpc' = IF op = "restore" THEN "exists" ELSE "makedirs"
    /\ UNCHANGED <<proc, backup_exc, backup_result, log_file, log_calls,
                   log_failures>>
    /\ UNCHANGED <<benchVars, backupVars, restVars>>

\* os.makedirs(backup_path, exist_ok=True)
BackupMakedirs ==
    /\ bpc = "makedirs"
    /\ LET n == backup_call.name
       IN  \/ /\ fs[n].kind = "absent"
              /\ fs' = [fs EXCEPT ![n] = Dir(clock)]
              /\ bpc' = "run"
              /\ UNCHANGED backup_exc
           \/ /\ fs[n].kind = "dir"
              /\ bpc' = "run"
              /\ UNCHANGED <<fs, backup_exc>>
           \/ /\ fs[n].kind = "file"
              /\ backup_exc' = "FileExistsError"
              /\ bpc' = "except"
              /\ UNCHANGED fs
    /\ UNCHANGED <<backup_call, proc, backup_result, log_file, log_calls,
                   log_failures>>
    /\ UNCHANGED <<fs0, retention_days, clock, cpc, cutoff_date, listing, idx,
                   cleanup_exc, cleanup_result>>
    /\ UNCHANGED <<benchVars, restVars>>

\* if not os.path.exists(backup_path): return {...}
RestoreExists ==
    /\ bpc = "exists"
    /\ IF fs[backup_call.name].kind = "absent"
       THEN /\ backup_result' = NotFoundInfo
            /\ bpc' = "returned"
       ELSE /\ bpc' = "run"
            /\ UNCHANGED backup_result
    /\ UNCHANGED <<backup_call, proc, backup_exc, log_file, log_calls,
                   log_failures>>
    /\ UNCHANGED <<benchVars, backupVars, restVars>>

\* start_time; subprocess.run / the pyodbc calls / tar.add; end_time; the
\* dictionary.  Work that completes writes into backup_path.
BackupRun ==
    /\ bpc = "run"
    /\ \E p \in ProcOutcomes(backup_call.op), d \in Elapsed :
          /\ proc' = p
          /\ clock' = clock + d
          /\ IF p.kind = "raise"
             THEN /\ backup_exc' = p.exc
                  /\ bpc' = "except"
                  /\ UNCHANGED <<fs, backup_result>>
             ELSE /\ backup_result' = InfoOf(backup_call, p, clock, clock')
                  /\ bpc' = "log"
                  /\ fs' = IF backup_call.op \in BackupOps /\ Written(p) > 0
                           THEN [fs EXCEPT ![backup_call.name] = Dir(clock')]
                           ELSE fs
                  /\ UNCHANGED backup_exc
    /\ UNCHANGED <<backup_call, log_file, log_calls, log_failures>>
    /\ UNCHANGED <<fs0, retention_days, cpc, cutoff_date, listing, idx,
                   cleanup_exc, cleanup_result>>
    /\ UNCHANGED <<benchVars, restVars>>

\* self._log_backup(backup_info), after which the backup methods go on to
\* self._cleanup_old_backups() and the restore method returns.
BackupLog ==
    /\ bpc = "log"
    /\ LogBackup(backup_result)
    /\ \E d \in Elapsed : clock' = clock + d
    /\ IF backup_call.op \in BackupOps
       THEN /\ bpc' = "cleanup"
            /\ cpc' = "idle"
            /\ fs0' = fs
       ELSE /\ bpc' = "returned"
            /\ UNCHANGED <<cpc, fs0>>
    /\ UNCHANGED <<backup_call, proc, backup_exc, backup_result>>
    /\ UNCHANGED <<fs, retention_days, cutoff_date, listing, idx, cleanup_exc,
                   cleanup_result>>
    /\ UNCHANGED <<benchVars, restVars>>

\* return backup_info, once _cleanup_old_backups has returned
BackupReturn ==
    /\ bpc = "cleanup"
    /\ cpc = "done"
    /\ bpc' = "returned"
    /\ UNCHANGED <<backup_call, proc, backup_exc, backup_result, log_file,
                   log_calls, log_failures>>
    /\ UNCHANGED <<benchVars, backupVars, restVars>>

\* except Exception as e: the backup methods log error_info and return it,
\* the restore method returns its dictionary unlogged.
BackupExcept ==
    /\ bpc = "except"
    /\ IF ExceptCatches(backup_exc)
       THEN /\ backup_result' = ErrorInfoOf(backup_call, backup_exc)
            /\ bpc' = "returned"
            /\ IF backup_call.op \in BackupOps
               THEN LogBackup(backup_result')
               ELSE UNCHANGED <<log_file, log_calls, log_failures>>
       ELSE /\ bpc' = "raised"
            /\ UNCHANGED <<backup_result, log_file, log_calls, log_failures>>
    /\ UNCHANGED <<backup_call, proc, backup_exc>>
    /\ UNCHANGED <<benchVars, backupVars, restVars>>

(***************************************************************************)
(* database/plsql_executor.py: PLSQLExecutor, execute_procedure and        *)
(* execute_function.  The two def statements stand at the indentation of   *)
(* the class statement inside "except ImportError:", so they are functions *)
(* of the module, defined only when the import of cx_Oracle failed, and    *)
(* the class has no method but __init__.                                   *)
(***************************************************************************)
Names == {"calc_bonus", "audit"}
ParamCounts == 0..MaxParams

\* The methods of class PLSQLExecutor, in either branch of the try.
ClassMethods == {"__init__"}

\* The functions the module defines.
ModuleFunctions(imported) ==
    IF imported THEN {} ELSE {"execute_procedure", "execute_function"}

\* The names bound in the module's globals.
ModuleGlobals(imported) ==
    ModuleFunctions(imported) \cup {"PLSQLExecutor"}
    \cup (IF imported THEN {"cx_Oracle"} ELSE {})

NoDbCall == [kind |-> "none", via |-> "none", name |-> "", nparams |-> 0,
             return_type |-> FALSE]
NoStmt == [form |-> "none", name |-> "", binds |-> 0]

DbCalls ==
    [kind : {"execute_procedure", "execute_function"},
     via : {"method", "function"}, name : Names, nparams : ParamCounts,
     return_type : BOOLEAN]

\* What the driver does with a statement, and what it returns for it.
ExecuteOutcomes == {"ok", "DatabaseError", "InterfaceError"}
CommitOutcomes == {"ok", "DatabaseError"}
Values == {"42", "None"}

\* plsql_block and the number of values bound to it.  The block of the last
\* branch of execute_function is a plain string, not an f-string: the name
\* in it is the text {function_name}.
Block(c) ==
    IF c.kind = "execute_procedure"
    THEN [form |-> IF c.nparams > 0 THEN "BEGIN name(binds); END;"
                   ELSE "BEGIN name; END;",
          name |-> c.name, binds |-> c.nparams]
    ELSE IF c.return_type
    THEN [form |-> "SELECT name(binds) FROM DUAL", name |-> c.name,
          binds |-> c.nparams]
    ELSE [form |-> "BEGIN :result := name(binds); END;",
          name |-> IF c.nparams > 0 THEN c.name ELSE "{function_name}",
          binds |-> c.nparams + 1]

\* The names the body reads from the module's globals before it calls
\* cursor.execute: cx_Oracle.STRING in the branches without return_type.
ReadsBeforeExecute(c) ==
    IF c.kind = "execute_function" /\ ~c.return_type THEN {"cx_Oracle"} ELSE {}

EndsTransactionAlways(kind) == TRUE

\* self.connection.commit() follows the statement in execute_procedure only.
EndsTransaction(kind) == kind = "execute_procedure"

\* except cx_Oracle.DatabaseError as e: the clause is evaluated when an
\* exception reaches it, and needs the name cx_Oracle.
Handler(e, imported) ==
    IF "cx_Oracle" \notin ModuleGlobals(imported) THEN "NameError"
    ELSE IF e = "DatabaseError" THEN "handle"
    ELSE "propagate"

IdleExecutor ==
    /\ cx_oracle_imported \in BOOLEAN
    /\ cursor_obj = IF cx_oracle_imported THEN "cursor" ELSE "None"
    /\ db_call = NoDbCall
    /\ dpc = "idle"
    /\ stmt = NoStmt
    /\ commits = 0
    /\ rollbacks = 0
    /\ db_return = NoResult
    /\ db_exc = ""

\* A caller invokes executor.<kind>(...) or, where the module has such a
\* function, <kind>(obj, ...) with an object of its own as self.
DbCall(c, cur) ==
    /\ dpc = "idle"
    /\ db_call' = c
    /\ IF c.via = "method"
       THEN IF c.kind \in ClassMethods
            THEN dpc' = "body" /\ UNCHANGED <<db_exc, cursor_obj>>
            ELSE /\ dpc' = "raised"
                 /\ db_exc' = "AttributeError"
                 /\ UNCHANGED cursor_obj
       ELSE IF c.kind \in ModuleFunctions(cx_oracle_imported)
            THEN dpc' = "body" /\ cursor_obj' = cur /\ UNCHANGED db_exc
            ELSE /\ dpc' = "raised"
                 /\ db_exc' = "ImportError"
                 /\ UNCHANGED cursor_obj
    /\ UNCHANGED <<cx_oracle_imported, stmt, commits, rollbacks, db_return>>
    /\ UNCHANGED <<authVars, nonDbVars>>

\* The try body up to and including cursor.execute, and for
\* execute_function the return that follows it.
DbExecute ==
    /\ dpc = "body"
    /\ IF cursor_obj = "None"
       THEN /\ db_exc' = "AttributeError"
            /\ dpc' = "except"
            /\ UNCHANGED <<stmt, db_return>>
       ELSE IF ~(ReadsBeforeExecute(db_call)
                   \subseteq ModuleGlobals(cx_oracle_imported))
       THEN /\ db_exc' = "NameError"
            /\ dpc' = "except"
            /\ UNCHANGED <<stmt, db_return>>
       ELSE /\ stmt' = Block(db_call)
            /\ \E o \in ExecuteOutcomes :
                  IF o # "ok"
                  THEN /\ db_exc' = o
                       /\ dpc' = "except"
                       /\ UNCHANGED db_return
                  ELSE IF EndsTransaction(db_call.kind)
                  THEN /\ dpc' = "commit"
                       /\ UNCHANGED <<db_exc, db_return>>
                  ELSE /\ \E v \in Values : db_return' = [value |-> v]
                       /\ dpc' = "returned"
                       /\ UNCHANGED db_exc
    /\ UNCHANGED <<cx_oracle_imported, cursor_obj, db_call, commits, rollbacks>>
    /\ UNCHANGED <<authVars, nonDbVars>>

\* self.connection.commit(); return True
DbCommit ==
    /\ dpc = "commit"
    /\ commits' = commits + 1
    /\ \E o \in CommitOutcomes :
          IF o = "ok"
          THEN /\ db_return' = [value |-> "True"]
               /\ dpc' = "returned"
               /\ UNCHANGED db_exc
          ELSE /\ db_exc' = o
               /\ dpc' = "except"
               /\ UNCHANGED db_return
    /\ UNCHANGED <<cx_oracle_imported, cursor_obj, db_call, stmt, rollbacks>>
    /\ UNCHANGED <<authVars, nonDbVars>>

\* The except clause: print, self.connection.rollback() and return False in
\* execute_procedure; print and return None in execute_function.
DbExcept ==
    /\ dpc = "except"
    /\ LET h == Handler(db_exc, cx_oracle_imported)
       IN  IF h = "handle"
           THEN IF db_call.kind = "execute_procedure"
                THEN /\ rollbacks' = rollbacks + 1
                     /\ \E o \in CommitOutcomes :
                           IF o = "ok"
                           THEN /\ db_return' = [value |-> "False"]
                                /\ dpc' = "returned"
                                /\ UNCHANGED db_exc
                           ELSE /\ db_exc' = o
                                /\ dpc' = "raised"
                                /\ UNCHANGED db_return
                ELSE /\ db_return' = [value |-> "None"]
                     /\ dpc' = "returned"
                     /\ UNCHANGED <<rollbacks, db_exc>>
           ELSE /\ db_exc' = IF h = "NameError" THEN "NameError" ELSE db_exc
                /\ dpc' = "raised"
                /\ UNCHANGED <<rollbacks, db_return>>
    /\ UNCHANGED <<cx_oracle_imported, cursor_obj, db_call, stmt, commits>>
    /\ UNCHANGED <<authVars, nonDbVars>>

(***************************************************************************)
(* windows_auth/windows_auth_example.py: connect_windows_auth              *)
(***************************************************************************)
ConnectOutcomes == {"ok", "pyodbc.Error"}

NextAttemptAlways(outcome) == "sql"

\* A successful pyodbc.connect is returned; except pyodbc.Error goes on to
\* the SQL-authentication attempt.
NextAttempt(outcome) == IF outcome = "ok" THEN "returned" ELSE "sql"

IdleAuth ==
    /\ pyodbc_imported \in BOOLEAN
    /\ apc = "idle"
    /\ attempts = <<>>
    /\ conn_result = "none"
    /\ conn_exc = ""

\* connect_windows_auth(): the definition of the try branch, or the mock of
\* the except ImportError branch, which returns MockConnection().
ConnectCall ==
    /\ apc = "idle"
    /\ IF pyodbc_imported
       THEN /\ apc' = "windows"
            /\ UNCHANGED conn_result
       ELSE /\ apc' = "returned"
            /\ conn_result' = "MockConnection"
    /\ UNCHANGED <<pyodbc_imported, attempts, conn_exc>>
    /\ UNCHANGED <<executorVars, nonDbVars>>

\* connection = pyodbc.connect(conn_str) with Trusted_Connection=yes
ConnectWindows ==
    /\ apc = "windows"
    /\ \E o \in ConnectOutcomes :
          /\ attempts' = Append(attempts, [auth |-> "windows", outcome |-> o])
          /\ apc' = NextAttempt(o)
          /\ conn_result' = IF o = "ok" THEN "windows" ELSE conn_result
    /\ UNCHANGED <<pyodbc_imported, conn_exc>>
    /\ UNCHANGED <<executorVars, nonDbVars>>

\* return pyodbc.connect(conn_str) with UID and PWD, inside the except clause
ConnectSql ==
    /\ apc = "sql"
    /\ \E o \in ConnectOutcomes :
          /\ attempts' = Append(attempts, [auth |-> "sql", outcome |-> o])
          /\ IF o = "ok"
             THEN /\ conn_result' = "sql"
                  /\ apc' = "returned"
                  /\ UNCHANGED conn_exc
             ELSE /\ conn_exc' = o
                  /\ apc' = "raised"
                  /\ UNCHANGED conn_result
    /\ UNCHANGED pyodbc_imported
    /\ UNCHANGED <<executorVars, nonDbVars>>

(***************************************************************************)
(* analysis/trend_analyzer.py: TrendAnalyzer.  A sample collection is a    *)
(* set of column names and a sequence of rows; one series of values stands *)
(* for each metric column the collection has.  Of the results, the field   *)
(* peak_hours is not carried.                                              *)
(***************************************************************************)
\* Python dictionaries are functions from keys to values; {} is the one
\* with no key.
NonEmptyDict == [error |-> "no data"]

EmptyDict == [k \in {} |-> 0]
Truthy(d) == DOMAIN d # {}

\* d.get(key, default)
Get(d, key, default) == IF key \in DOMAIN d THEN d[key] ELSE default

NaN == [nan |-> TRUE]
IsNumber(v) == DOMAIN v = {"num", "den"}

Num(k) == [num |-> k, den |-> 1]
RatAdd(a, b) == Rat(a.num * b.den + b.num * a.den, a.den * b.den)
RatSub(a, b) == Rat(a.num * b.den - b.num * a.den, a.den * b.den)
RatMul(a, b) == Rat(a.num * b.num, a.den * b.den)
\* a / b for b > 0
RatDiv(a, b) == Rat(a.num * b.den, a.den * b.num)
RatLess(a, b) == a.num * b.den < b.num * a.den

\* a > b as Python evaluates it: a comparison with NaN is false, one with
\* None raises TypeError.
Greater(a, b) ==
    IF ~("nan" \in DOMAIN a \/ IsNumber(a)) THEN "TypeError"
    ELSE IF "nan" \in DOMAIN a THEN "False"
    ELSE IF RatLess(b, a) THEN "True" ELSE "False"

ColumnSets ==
    {{}, {"cpu_percent"}, {"timestamp", "cpu_percent"},
     {"timestamp", "memory_percent", "disk_percent"},
     {"timestamp", "cpu_percent", "memory_percent", "disk_percent"}}

Shapes ==
    {"flat", "rising", "falling", "uneven_rising", "uneven_falling", "spike",
     "noisy_spike"}
Bases == {40, 70}
Steps == {2}
SpikeValues == {99}
Orders == {"ascending", "descending"}

\* The k-th sample in time of a series of n samples.
SampleOf(shape, base, n, k) ==
    LET step == CHOOSE s \in Steps : TRUE
        spike == CHOOSE s \in SpikeValues : TRUE
    IN  IF shape = "rising" THEN base + step * k
        ELSE IF shape = "falling" THEN base - step * k
        ELSE IF shape = "uneven_rising" THEN base + step * k + (k % 2)
        ELSE IF shape = "uneven_falling" THEN base - step * k - (k % 2)
        ELSE IF shape \in {"spike", "noisy_spike"} /\ k = (n + 1) \div 2
        THEN spike
        ELSE IF shape = "noisy_spike" THEN base + ((3 * k) % 7)
        ELSE base

\* The rows of a collection, in the order the caller holds them.
RowsOf(shape, base, n, order) ==
    [j \in 1..n |->
        LET k == IF order = "ascending" THEN j ELSE n + 1 - j
        IN  [timestamp |-> k, value |-> SampleOf(shape, base, n, k)]]

\* The dtype of the timestamp column: strings as read from a file, or
\* datetimes.
TimestampDtypes == {"object", "datetime64[ns]"}

Collections ==
    {[columns |-> cols,
      dtype |-> "datetime64[ns]",
      rows |-> IF cols = {} THEN <<>> ELSE RowsOf(sh, b, n, o)] :
        cols \in ColumnSets, sh \in Shapes, b \in Bases, n \in 0..MaxSamples,
        o \in Orders}

\* performance_data.empty
Empty(d) == d.columns = {} \/ d.rows = <<>>

Remove(s, k) == [j \in 1..(Len(s) - 1) |-> IF j < k THEN s[j] ELSE s[j + 1]]

\* the rows left in the order the caller holds them
KeepOrder(rows) == rows

\* data.sort_values('timestamp')
RECURSIVE SortValues(_)
SortValues(rows) ==
    IF rows = <<>> THEN <<>>
    ELSE LET k == CHOOSE a \in DOMAIN rows :
                     \A b \in DOMAIN rows :
                        \/ rows[a].timestamp < rows[b].timestamp
                        \/ rows[a].timestamp = rows[b].timestamp /\ a <= b
         IN  <<rows[k]>> \o SortValues(Remove(rows, k))

\* data[column] of the sorted copy
Column(d) == LET data == SortValues(d.rows)
             IN  [k \in 1..Len(data) |-> data[k].value]

\* data[column].rolling(window=w).mean().iloc[-1] if not all NaN else 0
LastRollingMean(y, w) ==
    IF Len(y) < w THEN Zero
    ELSE Mean(SubSeq(y, Len(y) - w + 1, Len(y)))

\* sum of (k - 1) * y[k]: X is np.arange(len(data))
RECURSIVE SumXY(_, _)
SumXY(y, k) == IF k = 0 THEN 0 ELSE (k - 1) * y[k] + SumXY(y, k - 1)

\* LinearRegression().fit(X, y).coef_[0]: the least-squares slope, 0 for a
\* single sample.
Slope(y) ==
    LET n == Len(y)
        sx == Sum([k \in 1..n |-> k - 1])
        sxx == SumSq([k \in 1..n |-> k - 1])
        den == n * sxx - sx * sx
    IN  IF den = 0 THEN Zero ELSE Rat(n * SumXY(y, n) - sx * Sum(y), den)

\* model.predict at position x: intercept_ + coef_[0] * x
Predict(y, x) ==
    LET n == Len(y)
        slope == Slope(y)
        sx == Sum([k \in 1..n |-> k - 1])
        intercept == RatDiv(RatSub(Num(Sum(y)), RatMul(slope, Num(sx))), Num(n))
    IN  RatAdd(intercept, RatMul(slope, Num(x)))

\* model.score(X, y): the coefficient of determination of the fitted line,
\* 1 - SS_res / SS_tot.  For a least-squares line with intercept this is
\* Sxy^2 / (Sxx * Syy), the form used here to keep the integers small.  When
\* SS_tot = 0 the fit is exact and r2_score returns 1.0; with fewer than 2
\* samples it returns NaN.
RSquared(y) ==
    LET n == Len(y)
        sx == Sum([k \in 1..n |-> k - 1])
        sxx == SumSq([k \in 1..n |-> k - 1])
        sxy == n * SumXY(y, n) - sx * Sum(y)
        syy == n * SumSq(y) - Sum(y) * Sum(y)
    IN  IF n < 2 THEN NaN
        ELSE IF syy = 0 THEN Num(1)
        ELSE Rat(sxy * sxy, (n * sxx - sx * sx) * syy)

\* the values of a column in ascending order
RECURSIVE Ascending(_)
Ascending(y) ==
    IF y = <<>> THEN <<>>
    ELSE LET k == CHOOSE a \in DOMAIN y : y[a] = Min(y)
         IN  <<y[k]>> \o Ascending(Remove(y, k))

\* data[column].quantile(qn / qd): linear interpolation between the order
\* statistics around position (n - 1) * qn / qd
Quantile(y, qn, qd) ==
    LET v == Ascending(y)
        lo == ((Len(y) - 1) * qn) \div qd
        part == ((Len(y) - 1) * qn) % qd
    IN  IF part = 0 THEN Num(v[lo + 1])
        ELSE Rat(v[lo + 1] * qd + part * (v[lo + 2] - v[lo + 1]), qd)

\* (value < Q1 - 1.5 * IQR) | (value > Q3 + 1.5 * IQR)
Outside(value, y) ==
    LET Q1 == Quantile(y, 1, 4)
        Q3 == Quantile(y, 3, 4)
        IQR == RatSub(Q3, Q1)
        reach == RatMul(Rat(3, 2), IQR)
    IN  \/ RatLess(Num(value), RatSub(Q1, reach))
        \/ RatLess(RatAdd(Q3, reach), Num(value))

\* the frame anomalies of analyze_cpu_trends: the rows of the sorted copy
\* whose value is outside the fences
Anomalies(d) ==
    LET data == SortValues(d.rows)
    IN  SelectSeq(data, LAMBDA row : Outside(row.value, Column(d)))

\* '<column>' not in performance_data.columns or performance_data.empty
MissingOrEmpty(d, column) == column \notin d.columns \/ Empty(d)

\* except Exception as e
CatchesException(e) == e \in {"KeyError", "TypeError"}

\* The exception the try body of analyze_cpu_trends raises, if any:
\* data['timestamp'] without that column; model.coef_[0] when sklearn could
\* not be imported and LinearRegression is a Mock.
CpuFailure(d, sklearn) ==
    IF "timestamp" \notin d.columns THEN "KeyError"
    ELSE IF ~sklearn THEN "TypeError"
    ELSE "none"

\* The dictionary analyze_cpu_trends returns from its try body.
CpuTrends(d) ==
    LET y == Column(d)
        n == Len(y)
    IN  [trend_slope |-> Slope(y),
         r_squared |-> RSquared(y),
         current_avg |-> Mean(y),
         predicted_values |-> [j \in 1..10 |-> Predict(y, n + j - 1)],
         anomalies |-> Num(Len(Anomalies(d))),
         anomaly_percentage |-> Rat(Len(Anomalies(d)) * 100, n),
         moving_averages |-> [ma_5 |-> LastRollingMean(y, 5),
                              ma_10 |-> LastRollingMean(y, 10)]]

\* (second_half - first_half) / first_half if first_half > 0 else 0, the
\* halves being the means of iloc[:n//2] and iloc[n//2:]
GrowthRate(y) ==
    LET n == Len(y)
        half == n \div 2
        first_half == IF half = 0 THEN NaN ELSE Mean(SubSeq(y, 1, half))
        second_half == Mean(SubSeq(y, half + 1, n))
    IN  IF Greater(first_half, Zero) = "True"
        THEN RatDiv(RatSub(second_half, first_half), first_half)
        ELSE Zero

\* remaining / growth_rate if growth_rate > 0, else None
TimeToLimit(current, growth_rate) ==
    IF Greater(growth_rate, Zero) = "True"
    THEN RatDiv(RatSub(Num(100), Num(current)), growth_rate)
    ELSE PyNone

\* The dictionary analyze_memory_trends returns from its try body.
MemoryTrends(d) ==
    LET y == Column(d)
        n == Len(y)
    IN  [growth_rate |-> GrowthRate(y),
         current_usage |-> Num(y[n]),
         time_to_exhaustion |-> TimeToLimit(y[n], GrowthRate(y)),
         avg_usage |-> Mean(y),
         max_usage |-> Num(Max(y)),
         volatility |-> IF n > 1 THEN Variance(y) ELSE NaN]

\* The dictionary analyze_disk_trends returns from its try body.
DiskTrends(d) ==
    LET y == Column(d)
        n == Len(y)
        g == GrowthRate(y)
    IN  [growth_rate |-> g,
         current_usage |-> Num(y[n]),
         time_to_full |-> TimeToLimit(y[n], g),
         avg_usage |-> Mean(y),
         max_usage |-> Num(Max(y)),
         trend_direction |-> IF Greater(g, Zero) = "True" THEN "increasing"
                             ELSE IF RatLess(g, Zero) THEN "decreasing"
                             ELSE "stable"]

\* The except clause of the three analyses: print and return {}.
TrendExcept(e) ==
    IF CatchesException(e) THEN [returned |-> EmptyDict] ELSE [raised |-> e]

AnalyzeCpuTrends(d, sklearn) ==
    IF MissingOrEmpty(d, "cpu_percent") THEN [returned |-> EmptyDict]
    ELSE IF CpuFailure(d, sklearn) = "none" THEN [returned |-> CpuTrends(d)]
    ELSE TrendExcept(CpuFailure(d, sklearn))

\* The exception the try body of analyze_memory_trends or
\* analyze_disk_trends raises, if any.
MetricFailure(d) == IF "timestamp" \notin d.columns THEN "KeyError" ELSE "none"

AnalyzeMemoryTrends(d) ==
    IF MissingOrEmpty(d, "memory_percent") THEN [returned |-> EmptyDict]
    ELSE IF MetricFailure(d) = "none" THEN [returned |-> MemoryTrends(d)]
    ELSE TrendExcept(MetricFailure(d))

AnalyzeDiskTrends(d) ==
    IF MissingOrEmpty(d, "disk_percent") THEN [returned |-> EmptyDict]
    ELSE IF MetricFailure(d) = "none" THEN [returned |-> DiskTrends(d)]
    ELSE TrendExcept(MetricFailure(d))

\* x or y, where y is evaluated only if x is false
OrElse(x, y) == IF x = "False" THEN y ELSE x

GreaterOrEqual(a, b) ==
    IF ~("nan" \in DOMAIN a \/ IsNumber(a)) THEN "TypeError"
    ELSE IF "nan" \in DOMAIN a THEN "False"
    ELSE IF RatLess(a, b) THEN "False" ELSE "True"

\* a > b inside the risk assessments
Exceeds(a, b) == Greater(a, b)

\* _assess_cpu_risk(cpu_trend)
AssessCpuRisk(cpu_trend) ==
    LET current_avg == Get(cpu_trend, "current_avg", Zero)
        trend_slope == Get(cpu_trend, "trend_slope", Zero)
        high == OrElse(Exceeds(current_avg, Num(80)), Exceeds(trend_slope, Num(2)))
        medium == OrElse(Exceeds(current_avg, Num(60)), Exceeds(trend_slope, Num(1)))
    IN  IF high = "TypeError" THEN "unknown"
        ELSE IF high = "True" THEN "high"
        ELSE IF medium = "TypeError" THEN "unknown"
        ELSE IF medium = "True" THEN "medium"
        ELSE "low"

\* (t and t < hours)
Within(t, hours) ==
    IF "py_none" \in DOMAIN t THEN "False"
    ELSE IF IsNumber(t) /\ t.num = 0 THEN "False"
    ELSE Greater(Num(hours), t)

\* _assess_memory_risk and _assess_disk_risk, with their thresholds
AssessUsageRisk(usage, time_left, high_usage, medium_usage) ==
    LET high == OrElse(Exceeds(usage, Num(high_usage)), Within(time_left, 24))
        medium == OrElse(Exceeds(usage, Num(medium_usage)), Within(time_left, 72))
    IN  IF high = "TypeError" THEN "unknown"
        ELSE IF high = "True" THEN "high"
        ELSE IF medium = "TypeError" THEN "unknown"
        ELSE IF medium = "True" THEN "medium"
        ELSE "low"

AssessMemoryRisk(t) ==
    AssessUsageRisk(Get(t, "current_usage", Zero),
                    Get(t, "time_to_exhaustion", PyNone), 85, 70)

AssessDiskRisk(t) ==
    AssessUsageRisk(Get(t, "current_usage", Zero),
                    Get(t, "time_to_full", PyNone), 90, 75)

\* days_ahead: int = 7
DaysAhead == 7

\* min(100, current_usage + growth_rate * days_ahead)
PredictedUsage(t, days_ahead) ==
    LET u == RatAdd(Get(t, "current_usage", Zero),
                    RatMul(Get(t, "growth_rate", Zero), Num(days_ahead)))
    IN  IF RatLess(Num(100), u) THEN Num(100) ELSE u

\* predict_future_performance(performance_data, days_ahead)
PredictFuturePerformance(d, sklearn, days_ahead) ==
    IF Empty(d) THEN EmptyDict
    ELSE
      LET cpu_trend == AnalyzeCpuTrends(d, sklearn).returned
          memory_trend == AnalyzeMemoryTrends(d).returned
          disk_trend == AnalyzeDiskTrends(d).returned
          keys == (IF Truthy(cpu_trend) THEN {"cpu"} ELSE {})
                  \cup (IF Truthy(memory_trend) THEN {"memory"} ELSE {})
                  \cup (IF Truthy(disk_trend) THEN {"disk"} ELSE {})
      IN  [k \in keys |->
             IF k = "cpu"
             THEN [current_avg |-> Get(cpu_trend, "current_avg", Zero),
                   predicted_avg |->
                       IF "predicted_values" \in DOMAIN cpu_trend
                       THEN cpu_trend.predicted_values[
                                Len(cpu_trend.predicted_values)]
                       ELSE Zero,
                   trend_slope |-> Get(cpu_trend, "trend_slope", Zero),
                   risk_level |-> AssessCpuRisk(cpu_trend)]
             ELSE IF k = "memory"
             THEN [current_usage |-> Get(memory_trend, "current_usage", Zero),
                   predicted_usage |-> PredictedUsage(memory_trend, days_ahead),
                   time_to_exhaustion |->
                       Get(memory_trend, "time_to_exhaustion", PyNone),
                   risk_level |-> AssessMemoryRisk(memory_trend)]
             ELSE [current_usage |-> Get(disk_trend, "current_usage", Zero),
                   predicted_usage |-> PredictedUsage(disk_trend, days_ahead),
                   time_to_full |-> Get(disk_trend, "time_to_full", PyNone),
                   risk_level |-> AssessDiskRisk(disk_trend)]]

\* The dictionaries handed to _assess_cpu_risk: with and without each key,
\* the values on both sides of each threshold, and None.
AvgInputs == {Num(0), Num(60), Num(61), Num(80), Num(81), PyNone}
SlopeInputs == {Num(-1), Num(1), Rat(3, 2), Num(2), Rat(5, 2), PyNone}

RiskInputs ==
    {[current_avg |-> a, trend_slope |-> s] : a \in AvgInputs, s \in SlopeInputs}
    \cup {[current_avg |-> a] : a \in AvgInputs}
    \cup {[trend_slope |-> s] : s \in SlopeInputs}

InitTrend ==
    /\ sklearn_imported \in BOOLEAN
    /\ performance_data \in Collections
    /\ tpc = "idle"
    /\ trend_op = "none"
    /\ risk_arg = EmptyDict
    /\ trend_result = NoResult

IdleTrend ==
    /\ sklearn_imported = TRUE
    /\ performance_data =
          [columns |-> {}, dtype |-> "datetime64[ns]", rows |-> <<>>]
    /\ tpc = "idle"
    /\ trend_op = "none"
    /\ risk_arg = EmptyDict
    /\ trend_result = NoResult

\* The call returns r.returned or raises r.raised.
TrendReturn(op, r) ==
    /\ tpc = "idle"
    /\ trend_op' = op
    /\ IF "returned" \in DOMAIN r
       THEN /\ trend_result' = r.returned
            /\ tpc' = "done"
       ELSE /\ tpc' = "raised"
            /\ UNCHANGED trend_result
    /\ UNCHANGED <<sklearn_imported, performance_data>>
    /\ UNCHANGED nonTrendVars

CallAnalyzeCpu ==
    /\ TrendReturn("analyze_cpu_trends",
                   AnalyzeCpuTrends(performance_data, sklearn_imported))
    /\ UNCHANGED risk_arg

CallAnalyzeMemory ==
    /\ TrendReturn("analyze_memory_trends", AnalyzeMemoryTrends(performance_data))
    /\ UNCHANGED risk_arg

CallAnalyzeDisk ==
    /\ TrendReturn("analyze_disk_trends", AnalyzeDiskTrends(performance_data))
    /\ UNCHANGED risk_arg

CallPredict ==
    /\ TrendReturn("predict_future_performance",
                   [returned |-> PredictFuturePerformance(
                        performance_data, sklearn_imported, DaysAhead)])
    /\ UNCHANGED risk_arg

CallAssessCpuRisk(t) ==
    /\ TrendReturn("_assess_cpu_risk", [returned |-> [label |-> AssessCpuRisk(t)]])
    /\ risk_arg' = t

(***************************************************************************)
(* performance/analyzer.py: PerformanceAnalyzer.  The module imports       *)
(* sklearn unconditionally, so the class exists only where that import     *)
(* succeeds.  Of the results, query_type_analysis (no collection here has  *)
(* a query_type column), consistency and correlations are not carried.     *)
(***************************************************************************)
QueryColumnSets ==
    {{"execution_time_ms"}, {"timestamp", "execution_time_ms"}}

\* The collections handed to the PerformanceAnalyzer and, for comparison,
\* to the TrendAnalyzer.
FrameShapes == {"rising", "spike"}

FrameCollections ==
    {[columns |-> cols,
      dtype |-> t,
      rows |-> IF cols = {} THEN <<>> ELSE RowsOf(sh, b, n, o)] :
        cols \in ColumnSets \cup QueryColumnSets, t \in TimestampDtypes,
        sh \in FrameShapes, b \in Bases, n \in 0..MaxSamples, o \in Orders}

\* performance_data[column], in the caller's row order
SeriesOf(d) == [k \in 1..Len(d.rows) |-> d.rows[k].value]

\* timestamp.dt.hour, the timestamps being minutes of one day
HourOf(ts) == (ts \div 60) % 24

\* The caller's frame after lines 44, 45 and 51: the timestamp column
\* converted by pd.to_datetime, the columns hour and time_order added.
WithTimeColumns(d) ==
    [columns |-> d.columns \cup {"hour", "time_order"},
     dtype |-> "datetime64[ns]",
     rows |-> [k \in 1..Len(d.rows) |->
                 [timestamp |-> d.rows[k].timestamp,
                  value |-> d.rows[k].value,
                  hour |-> HourOf(d.rows[k].timestamp),
                  time_order |-> k - 1]]]

\* The exception the try body of analyze_query_performance raises, if any:
\* performance_data['execution_time_ms'] without that column.
QueryFailure(d) ==
    IF "execution_time_ms" \notin d.columns THEN "KeyError" ELSE "none"

\* The caller's frame when analyze_query_performance returns.
QueryFrameAfter(d) ==
    IF Empty(d) \/ QueryFailure(d) # "none" \/ "timestamp" \notin d.columns
    THEN d
    ELSE WithTimeColumns(d)

\* groupby('hour')['execution_time_ms'].mean().to_dict()
HourlyPerformance(d) ==
    [h \in {HourOf(d.rows[k].timestamp) : k \in DOMAIN d.rows} |->
        Mean(SeriesOf([d EXCEPT !.rows =
            SelectSeq(d.rows, LAMBDA row : HourOf(row.timestamp) = h)]))]

\* The rows outside the fences, of the frame as the caller ordered it.
Outliers(d) ==
    SelectSeq(d.rows, LAMBDA row : Outside(row.value, SeriesOf(d)))

\* The dictionary analyze_query_performance returns from its try body.
QueryAnalysis(d) ==
    LET y == SeriesOf(d)
        outliers == [d EXCEPT !.rows = Outliers(d)]
    IN  [basic_stats |->
            [total_queries |-> Len(y),
             avg_execution_time |-> Mean(y),
             median_execution_time |-> Quantile(y, 1, 2),
             p95_execution_time |-> Quantile(y, 95, 100),
             p99_execution_time |-> Quantile(y, 99, 100),
             max_execution_time |-> Num(Max(y)),
             min_execution_time |-> Num(Min(y))]]
        @@ (IF "timestamp" \in d.columns
            THEN [hourly_performance |-> HourlyPerformance(d),
                  trend_analysis |->
                     [trend_slope |-> Slope(y),
                      trend_intercept |-> Predict(y, 0),
                      r_squared |-> RSquared(y)]]
            ELSE EmptyDict)
        @@ [outliers |->
               [count |-> Len(outliers.rows),
                percentage |-> Rat(Len(outliers.rows) * 100, Len(y)),
                avg_outlier_time |->
                    IF Empty(outliers) THEN Zero ELSE Mean(SeriesOf(outliers))]]

AnalyzeQueryPerformance(d) ==
    IF Empty(d) THEN [returned |-> EmptyDict]
    ELSE IF QueryFailure(d) = "none" THEN [returned |-> QueryAnalysis(d)]
    ELSE TrendExcept(QueryFailure(d))

\* _calculate_trend(data)
CalculateTrend(y) == IF Len(y) < 2 THEN Zero ELSE Slope(y)

\* _calculate_growth_rate(data), for values that are not negative
CalculateGrowthRate(y) ==
    LET half == Len(y) \div 2
        first_half == Mean(SubSeq(y, 1, half))
        second_half == Mean(SubSeq(y, half + 1, Len(y)))
    IN  IF Len(y) < 2 THEN Zero
        ELSE IF first_half = Zero THEN Zero
        ELSE RatDiv(RatSub(second_half, first_half), first_half)

\* len(metrics_data[metrics_data[column] > limit])
HighUsagePeriods(y, limit) == Cardinality({k \in DOMAIN y : y[k] > limit})

\* analyze_resource_usage(metrics_data)
AnalyzeResourceUsage(d) ==
    IF Empty(d) THEN EmptyDict
    ELSE
      LET y == SeriesOf(d)
          keys == {"cpu_analysis" : c \in d.columns \cap {"cpu_percent"}}
                  \cup {"memory_analysis" :
                            c \in d.columns \cap {"memory_percent"}}
                  \cup {"disk_analysis" : c \in d.columns \cap {"disk_percent"}}
      IN  [k \in keys |->
             IF k = "cpu_analysis"
             THEN [avg_usage |-> Mean(y),
                   max_usage |-> Num(Max(y)),
                   min_usage |-> Num(Min(y)),
                   high_usage_periods |-> HighUsagePeriods(y, 80)]
             ELSE IF k = "memory_analysis"
             THEN [avg_usage |-> Mean(y),
                   max_usage |-> Num(Max(y)),
                   min_usage |-> Num(Min(y)),
                   high_usage_periods |-> HighUsagePeriods(y, 85),
                   trend |-> CalculateTrend(y)]
             ELSE [avg_usage |-> Mean(y),
                   max_usage |-> Num(Max(y)),
                   min_usage |-> Num(Min(y)),
                   growth_rate |-> CalculateGrowthRate(y)]]

InitFrame ==
    /\ sklearn_imported \in BOOLEAN
    /\ performance_data \in FrameCollections
    /\ tpc = "idle"
    /\ trend_op = "none"
    /\ risk_arg = EmptyDict
    /\ trend_result = NoResult

\* The call returns r.returned or raises r.raised, and leaves the caller's
\* frame as frame.
AnalyzerReturn(op, r, frame) ==
    /\ tpc = "idle"
    /\ sklearn_imported
    /\ trend_op' = op
    /\ performance_data' = frame
    /\ IF "returned" \in DOMAIN r
       THEN /\ trend_result' = r.returned
            /\ tpc' = "done"
       ELSE /\ tpc' = "raised"
            /\ UNCHANGED trend_result
    /\ UNCHANGED <<sklearn_imported, risk_arg>>
    /\ UNCHANGED nonTrendVars

CallAnalyzeQueryPerformance ==
    AnalyzerReturn("analyze_query_performance",
                   AnalyzeQueryPerformance(performance_data),
                   QueryFrameAfter(performance_data))

CallAnalyzeResourceUsage ==
    AnalyzerReturn("analyze_resource_usage",
                   [returned |-> AnalyzeResourceUsage(performance_data)],
                   performance_data)

(***************************************************************************)
(* Specifications.                                                         *)
(***************************************************************************)
IdleBackup ==
    /\ fs = [e \in Entries |-> Absent]
    /\ fs0 = fs
    /\ retention_days = 0
    /\ clock = ClockAtCleanup
    /\ cpc = "idle"
    /\ cutoff_date = 0
    /\ listing = <<>>
    /\ idx = 1
    /\ cleanup_exc = "none"
    /\ cleanup_result = NoResult

IdleDb ==
    /\ IdleExecutor /\ cx_oracle_imported
    /\ IdleAuth /\ pyodbc_imported

InitBenchmark == InitBench /\ IdleBackup /\ IdleRun /\ IdleDb /\ IdleTrend

NextBenchmark ==
    \/ CallSingle
    \/ SingleCursor
    \/ SingleIter
    \/ SingleClose
    \/ CallTransaction
    \/ TransactionIter
    \/ TransactionLoopExit
    \/ CallLoad
    \/ LoadStart
    \/ LoadWhile
    \/ LoadQuery
    \/ CallConcurrent
    \/ ConcurrentPool
    \/ ConcurrentSubmit
    \/ \E w \in WorkerIds : WorkerCursor(w)
    \/ \E w \in WorkerIds : WorkerIter(w)
    \/ \E w \in WorkerIds : WorkerClose(w)
    \/ \E w \in WorkerIds : ConcurrentCollect(w)
    \/ ConcurrentCollected
    \/ ConcurrentShutdown
    \/ Reduce
    \/ Except

SpecBenchmark == InitBenchmark /\ [][NextBenchmark]_vars

\* run_load_test alone, on a thread that is scheduled as long as it can
\* take a step.
NextLoadTest ==
    \/ CallLoad
    \/ LoadStart
    \/ LoadWhile
    \/ LoadQuery
    \/ Reduce
    \/ Except

SpecLoadTest ==
    InitBenchmark /\ [][NextLoadTest]_vars /\ WF_vars(NextLoadTest)

InitCleanup == InitBench /\ InitBackup /\ IdleRun /\ IdleDb /\ IdleTrend

NextCleanup ==
    \/ CleanupBegin
    \/ CleanupStep
    \/ CleanupEnd

SpecBackup == InitCleanup /\ [][NextCleanup]_vars

InitBackupOps ==
    InitBench /\ InitBackupDir /\ IdleRun /\ IdleDb /\ IdleTrend

NextBackupOps ==
    \/ \E op \in Ops, name \in BackupNames : BackupCall(op, name)
    \/ BackupMakedirs
    \/ RestoreExists
    \/ BackupRun
    \/ BackupLog
    \/ BackupReturn
    \/ BackupExcept
    \/ CleanupBegin
    \/ CleanupStep
    \/ CleanupEnd

SpecBackupOps == InitBackupOps /\ [][NextBackupOps]_vars

InitDatabase ==
    InitBench /\ IdleBackup /\ IdleRun /\ IdleExecutor /\ IdleAuth /\ IdleTrend

NextDatabase ==
    \/ \E c \in DbCalls, cur \in {"None", "cursor"} : DbCall(c, cur)
    \/ DbExecute
    \/ DbCommit
    \/ DbExcept
    \/ ConnectCall
    \/ ConnectWindows
    \/ ConnectSql

SpecDatabase == InitDatabase /\ [][NextDatabase]_vars

InitAnalysis == InitBench /\ IdleBackup /\ IdleRun /\ IdleDb /\ InitTrend

NextAnalysis ==
    \/ CallAnalyzeCpu
    \/ CallAnalyzeMemory
    \/ CallAnalyzeDisk
    \/ CallPredict
    \/ \E t \in RiskInputs : CallAssessCpuRisk(t)

SpecTrend == InitAnalysis /\ [][NextAnalysis]_vars

InitFrames == InitBench /\ IdleBackup /\ IdleRun /\ IdleDb /\ InitFrame

NextFrames ==
    \/ CallAnalyzeCpu
    \/ CallAnalyzeMemory
    \/ CallAnalyzeDisk
    \/ CallPredict
    \/ CallAnalyzeQueryPerformance
    \/ CallAnalyzeResourceUsage

SpecAnalyzer == InitFrames /\ [][NextFrames]_vars

(***************************************************************************)
(* Claims about the benchmark harness, checked under SpecBenchmark.        *)
(***************************************************************************)
Returned(method) == pc = "returned" /\ call.method = method

IsError(r) == "error" \in DOMAIN r

\* avg, min, max and std-dev of a result are all 0
StatsZero(r) ==
    /\ r.avg_time_ms = Zero
    /\ r.min_time_ms = 0
    /\ r.max_time_ms = 0
    /\ r.std_dev_ms = Zero

\* ... and so is the total time
TimingZero(r) == StatsZero(r) /\ r.total_time_ms = 0

FailedWorkers == {w \in 1..call.concurrent_users : workers[w].st = "failed"}

RECURSIVE SamplesOf(_)
SamplesOf(ws) ==
    IF ws = {} THEN 0
    ELSE LET w == CHOOSE x \in ws : TRUE
         IN  Len(workers[w].times) + SamplesOf(ws \ {w})

\* C1: when no worker fails and concurrent_users >= 1 and
\* iterations_per_user >= 1, run_concurrent_test returns a result without an
\* error whose total_iterations is concurrent_users * iterations_per_user, and
\* that number is the number of samples pooled in all_times and the number of
\* samples the workers measured, whatever the interleaving was.
C1_TotalIterations ==
    (/\ Returned("concurrent")
     /\ FailedWorkers = {}
     /\ call.concurrent_users >= 1
     /\ call.iterations_per_user >= 1)
    => /\ ~IsError(result)
       /\ result.total_iterations = call.concurrent_users * call.iterations_per_user
       /\ result.total_iterations = Len(execution_times)
       /\ result.total_iterations = SamplesOf(1..call.concurrent_users)

C1_Witness ==
    /\ Returned("concurrent")
    /\ FailedWorkers = {}
    /\ call.concurrent_users = 2
    /\ call.iterations_per_user = 2
    /\ result.total_iterations = 4

\* C2: when a worker of run_concurrent_test has raised, the call returns an
\* error result: its error is the message of a worker that raised (of the one
\* failed future whose result() the caller took), total_iterations is 0 and
\* avg, min, max, std-dev and total time are 0, whatever the other workers
\* measured.
C2_WorkerErrorIsResult ==
    (Returned("concurrent") /\ FailedWorkers # {})
    => /\ IsError(result)
       /\ Cardinality(FailedWorkers \cap consumed) = 1
       /\ \E w \in FailedWorkers \cap consumed : result.error = workers[w].msg
       /\ result.total_iterations = 0
       /\ TimingZero(result)

C2_Witness ==
    /\ Returned("concurrent")
    /\ Cardinality(FailedWorkers) = 1
    /\ Len(execution_times) = 2
    /\ IsError(result)

\* C3: run_concurrent_test has returned only if every one of the
\* concurrent_users submitted workers has run to its end, also when the
\* result is the error of a worker that raised.
C3_ReturnsAfterAllWorkers ==
    Returned("concurrent")
    => \A w \in 1..call.concurrent_users : Finished(workers[w])

C3_Witness ==
    /\ Returned("concurrent")
    /\ exc.site = "result"
    /\ \E w \in 1..call.concurrent_users :
          w \notin consumed /\ workers[w].st = "done" /\ workers[w].times # <<>>

\* C4: in run_single_query_test, once the k-th execution has raised, k - 1
\* timings were measured and exactly k executions were started, none after
\* the failing one; the result has iterations 0, every timing field 0 and
\* the exception's message as error.
C4_SingleAbortsOnError ==
    (call.method = "single" /\ exc.site \in {"execute", "fetchall"})
    => /\ executed[0] = Len(execution_times) + 1
       /\ pc = "returned" =>
             /\ result.iterations = 0
             /\ TimingZero(result)
             /\ IsError(result)
             /\ result.error = exc.msg

C4_Witness ==
    /\ Returned("single")
    /\ exc.site = "execute"
    /\ Len(execution_times) >= 1
    /\ call.iterations = 2

\* C5: with iterations = 0, run_single_query_test never executes the query
\* and run_transaction_test never calls the transaction function, and the
\* result each returns has iterations 0 and every timing field 0.
C5_ZeroIterations ==
    (call.method \in {"single", "transaction"} /\ call.iterations = 0)
    => /\ executed[0] = 0
       /\ pc = "returned" => (result.iterations = 0 /\ TimingZero(result))

C5_Witness ==
    /\ Returned("single")
    /\ call.iterations = 0
    /\ cursors.closed = 1

\* C6: when the transaction function raises, run_transaction_test returns a
\* result with iterations 0, every timing field 0, test_type
\* 'custom_transaction' and the exception's message as error.
C6_TransactionErrorResult ==
    (Returned("transaction") /\ exc.site = "transaction_func")
    => /\ result.iterations = 0
       /\ TimingZero(result)
       /\ result.test_type = "custom_transaction"
       /\ IsError(result)
       /\ result.error = exc.msg

Raised(a) == IF a = 0 THEN exc # NoExc ELSE workers[a].st = "failed"

\* C7: in each of the four methods, an exception raised by opening a cursor,
\* executing, fetching, closing or by the transaction function never leaves
\* the method: the call returns a result with an error field; and the thread
\* on which an operation raised makes no further call.
C7_CaughtAndNotRetried ==
    /\ [](/\ pc # "propagated"
          /\ (pc = "returned" /\ \E a \in Actors : Raised(a)) => IsError(result))
    /\ [][\A a \in Actors : Raised(a) => calls'[a] = calls[a]]_vars

C7_Witness ==
    /\ Returned("load")
    /\ exc.site = "close"
    /\ IsError(result)
    /\ executed[0] >= 2

\* C8: a run_load_test that returns without error, duration_seconds > 0,
\* reports a total_queries that is the number of query executions performed
\* and the sum of the per-query counts, and a queries_per_second that is
\* total_queries / duration_seconds.
C8_LoadTotals ==
    (Returned("load") /\ ~IsError(result) /\ call.duration_seconds > 0)
    => /\ result.total_queries = executed[0]
       /\ result.total_queries = SumCounts(result.query_counts)
       /\ result.queries_per_second.den > 0
       /\ result.queries_per_second.num * call.duration_seconds
             = result.total_queries * result.queries_per_second.den

C8_Witness ==
    /\ Returned("load")
    /\ ~IsError(result)
    /\ call.queries = <<"q1", "q1">>
    /\ call.duration_seconds = 2
    /\ result.total_queries = 2

\* C9: run_load_test with duration_seconds = 0 executes no query, and the
\* result it returns has total_queries 0 and avg, min, max and std-dev 0.
C9_ZeroDuration ==
    (call.method = "load" /\ call.duration_seconds = 0)
    => /\ executed[0] = 0
       /\ pc = "returned" => (result.total_queries = 0 /\ StatsZero(result))

C9_Witness ==
    /\ Returned("load")
    /\ call.duration_seconds = 0
    /\ call.queries # <<>>

(***************************************************************************)
(* Claims about the retention cleanup, checked under SpecBackup.           *)
(***************************************************************************)
\* A directory of the pass's start that is older than retention_days.
OlderThanRetention(e) ==
    /\ fs0[e].kind = "dir"
    /\ clock - fs0[e].ctime > retention_days * TicksPerDay

\* A directory of the pass's start that is within the retention window.
WithinRetention(e) ==
    /\ fs0[e].kind = "dir"
    /\ clock - fs0[e].ctime <= retention_days * TicksPerDay

\* The entries the for loop went through before it ended or was left.
Examined == {listing[k] : k \in 1..(idx - 1)}

C11_CleanupReturnsLists ==
    cpc = "done"
    => /\ {"deleted_backups", "kept_backups"} \subseteq DOMAIN cleanup_result
       /\ Range(cleanup_result.deleted_backups)
             \cap Range(cleanup_result.kept_backups) = {}
       /\ Range(cleanup_result.deleted_backups)
             \cup Range(cleanup_result.kept_backups)
             = {e \in Examined : fs0[e].kind = "dir"}

(***************************************************************************)
(* Claims about the backup and restore operations, checked under           *)
(* SpecBackupOps.                                                          *)
(***************************************************************************)
BackupReturned == bpc = "returned" /\ backup_call.op \in BackupOps

TimedOut == proc.kind = "raise" /\ proc.exc = "TimeoutExpired"

\* The dictionaries a method can return for an attempt that raised, and for
\* a restore whose backup is missing.
RaisedResults(c) ==
    {ErrorInfoOf(c, p.exc) : p \in {q \in ProcOutcomes(c.op) : q.kind = "raise"}}
    \cup {ErrorInfoOf(c, "FileExistsError")}
    \cup (IF c.op = "restore" THEN {NotFoundInfo} ELSE {})

\* The dictionaries a method can return for an attempt that failed.
FailedResults(c) ==
    RaisedResults(c)
    \cup {InfoOf(c, p, 0, 0) :
            p \in {q \in ProcOutcomes(c.op) :
                     q.kind = "exit" /\ q.returncode # 0}}

\* C12 as stated: every call of a backup method appends exactly one record to
\* the backup log, whether the attempt succeeded, exited non-zero or raised,
\* and on the success path the record is there before the cleanup runs.
C12_ExactlyOneRecord ==
    /\ BackupReturned => Len(log_file) = 1
    /\ (backup_call.op \in BackupOps /\ cpc # "unstarted") => Len(log_file) = 1

\* C12 as amended: every call of a backup method calls _log_backup exactly
\* once with the dictionary it returns, on the success path before the
\* cleanup runs; that call appends exactly one record when the write succeeds
\* and none when the write fails, the failure being printed and dropped.
C12_ExactlyOneLogCall ==
    /\ (BackupReturned \/ (backup_call.op \in BackupOps /\ cpc # "unstarted"))
       => /\ log_calls = 1
          /\ Len(log_file) + log_failures = 1
          /\ Len(log_file) = 1 => log_file[1] = backup_result
    /\ (backup_call.op \in BackupOps /\ bpc \notin {"returned", "cleanup"})
       => log_calls = 0 /\ log_file = <<>>

C12_Witness ==
    /\ BackupReturned
    /\ cpc = "done"
    /\ backup_result.success
    /\ log_failures = 1
    /\ log_file = <<>>

C15_EndsTransactionOnce ==
    (db_call.kind = "execute_procedure" /\ dpc \in {"returned", "raised"})
    => /\ dpc = "returned"
       /\ \/ commits = 1 /\ rollbacks = 0 /\ db_return.value = "True"
          \/ commits = 0 /\ rollbacks = 1 /\ db_return.value = "False"

\* C16: execute_function never invokes commit or rollback on the connection,
\* with and without parameters, with and without return_type, on success and
\* on a database error.
C16_FunctionNeverEndsTransaction ==
    db_call.kind = "execute_function" => commits = 0 /\ rollbacks = 0

C16_Witness ==
    /\ db_call.kind = "execute_function"
    /\ db_call.nparams > 0
    /\ dpc = "returned"
    /\ stmt = Block(db_call)
    /\ db_return.value = "42"
    /\ commits = 0 /\ rollbacks = 0

Failed(a) == a.outcome # "ok"

\* C17: connect_windows_auth attempts the Windows-integrated connection
\* first and the SQL-authentication connection only after the Windows attempt
\* has failed; it makes at most two attempts, returns the first connection
\* that succeeds and raises the driver error when every attempt it makes
\* fails.
C17_WindowsFirstThenSql ==
    /\ Len(attempts) <= 2
    /\ attempts # <<>> => attempts[1].auth = "windows"
    /\ \A k \in DOMAIN attempts :
          attempts[k].auth = "sql"
          => k > 1 /\ attempts[k - 1].auth = "windows" /\ Failed(attempts[k - 1])
    /\ \A k \in DOMAIN attempts : ~Failed(attempts[k]) => k = Len(attempts)
    /\ (pyodbc_imported /\ apc \in {"returned", "raised"}) => attempts # <<>>
    /\ (apc = "returned" /\ attempts # <<>>)
       => /\ ~Failed(attempts[Len(attempts)])
          /\ conn_result = attempts[Len(attempts)].auth
    /\ apc = "raised"
       => /\ \A k \in DOMAIN attempts : Failed(attempts[k])
          /\ conn_exc = attempts[Len(attempts)].outcome
          /\ conn_result = "none"
    /\ (apc \notin {"idle", "returned"} /\ Len(attempts) = 2
          /\ \A k \in DOMAIN attempts : Failed(attempts[k]))
       => apc = "raised"

C17_Witness ==
    /\ apc = "raised"
    /\ Len(attempts) = 2
    /\ attempts[1].auth = "windows"
    /\ attempts[2].auth = "sql"
    /\ conn_exc = "pyodbc.Error"

(***************************************************************************)
(* Claims about the trend analyzer, checked under SpecTrend.               *)
(***************************************************************************)
TrendDone(op) == tpc = "done" /\ trend_op = op

\* C18: for an empty sample collection, and for one lacking the relevant
\* metric column, analyze_cpu_trends, analyze_memory_trends and
\* analyze_disk_trends return an empty mapping, and
\* predict_future_performance returns an empty mapping for an empty
\* collection; none of them raises.
C18_EmptyInputEmptyMapping ==
    /\ tpc # "raised"
    /\ (TrendDone("analyze_cpu_trends")
          /\ (Empty(performance_data)
                \/ "cpu_percent" \notin performance_data.columns))
       => DOMAIN trend_result = {}
    /\ (TrendDone("analyze_memory_trends")
          /\ (Empty(performance_data)
                \/ "memory_percent" \notin performance_data.columns))
       => DOMAIN trend_result = {}
    /\ (TrendDone("analyze_disk_trends")
          /\ (Empty(performance_data)
                \/ "disk_percent" \notin performance_data.columns))
       => DOMAIN trend_result = {}
    /\ (TrendDone("predict_future_performance") /\ Empty(performance_data))
       => DOMAIN trend_result = {}

C18_Witness ==
    /\ TrendDone("analyze_memory_trends")
    /\ ~Empty(performance_data)
    /\ "memory_percent" \notin performance_data.columns
    /\ DOMAIN trend_result = {}

\* C19: for every pair (current average, trend slope) the CPU risk label is
\* 'high' exactly when the average is above 80 or the slope above 2,
\* otherwise 'medium' exactly when the average is above 60 or the slope
\* above 1, otherwise 'low'; the label is one of high, medium, low, unknown,
\* and 'unknown' only when the computation fails.
C19_CpuRiskThresholds ==
    TrendDone("_assess_cpu_risk")
    => LET avg == Get(risk_arg, "current_avg", Zero)
           slope == Get(risk_arg, "trend_slope", Zero)
           label == trend_result.label
       IN  /\ label \in {"high", "medium", "low", "unknown"}
           /\ label = "unknown" => ~IsNumber(avg) \/ ~IsNumber(slope)
           /\ (IsNumber(avg) /\ IsNumber(slope))
              => LET high == RatLess(Num(80), avg) \/ RatLess(Num(2), slope)
                     medium == RatLess(Num(60), avg) \/ RatLess(Num(1), slope)
                 IN  /\ label = "high" <=> high
                     /\ label = "medium" <=> (~high /\ medium)
                     /\ label = "low" <=> (~high /\ ~medium)

C19_Witness ==
    /\ TrendDone("_assess_cpu_risk")
    /\ risk_arg = [current_avg |-> Num(60), trend_slope |-> Rat(3, 2)]
    /\ trend_result.label = "medium"

\* C20: in the result of analyze_cpu_trends a moving average is omitted
\* when fewer samples than its window exist: with fewer than 5 samples the
\* moving_averages mapping is empty, and with 5 to 9 samples it holds no
\* 10-point value.
C20_MovingAveragesOmitted ==
    (TrendDone("analyze_cpu_trends") /\ Truthy(trend_result))
    => LET n == Len(performance_data.rows)
           ma == trend_result.moving_averages
       IN  /\ n < 5 => DOMAIN ma = {}
           /\ n < 10 => "ma_10" \notin DOMAIN ma
           /\ n >= 5 => "ma_5" \in DOMAIN ma
           /\ n >= 10 => "ma_10" \in DOMAIN ma

\* The series of a collection, read in timestamp order, is strictly
\* increasing (dir = 1) or strictly decreasing (dir = -1).
StrictlyMonotone(d, dir) ==
    \A a, b \in DOMAIN d.rows :
        d.rows[a].timestamp < d.rows[b].timestamp
        => dir * d.rows[a].value < dir * d.rows[b].value

\* analyze_cpu_trends has returned its statistics for a series of at least
\* 2 samples.
CpuAnalysed ==
    /\ TrendDone("analyze_cpu_trends")
    /\ Truthy(trend_result)
    /\ Len(performance_data.rows) >= 2

\* C21: for every strictly increasing series of at least 2 samples (ordered
\* by timestamp) analyze_cpu_trends reports a slope > 0 and 10 extrapolated
\* values, for positions n..n+9, each >= the one before; for every strictly
\* decreasing series a slope < 0 and each extrapolated value <= the one
\* before.  The statistics are reported when the collection has the
\* timestamp and cpu_percent columns and the regression is available.
C21_MonotoneSeriesMonotoneForecast ==
    /\ (TrendDone("analyze_cpu_trends")
           /\ sklearn_imported
           /\ {"timestamp", "cpu_percent"} \subseteq performance_data.columns
           /\ ~Empty(performance_data))
        => Truthy(trend_result)
    /\ CpuAnalysed
        => LET slope == trend_result.trend_slope
               p == trend_result.predicted_values
               n == Len(performance_data.rows)
           IN  /\ Len(p) = 10
               /\ \A j \in 1..9 : RatSub(p[j + 1], p[j]) = slope
               /\ StrictlyMonotone(performance_data, 1)
                  => /\ RatLess(Zero, slope)
                     /\ \A j \in 1..9 : ~RatLess(p[j + 1], p[j])
               /\ StrictlyMonotone(performance_data, -1)
                  => /\ RatLess(slope, Zero)
                     /\ \A j \in 1..9 : ~RatLess(p[j], p[j + 1])

C21_Witness ==
    /\ CpuAnalysed
    /\ Len(performance_data.rows) = 5
    /\ performance_data.rows[1].timestamp = 5
    /\ performance_data.rows[1].value = 40 - 2 * 5 - 1
    /\ StrictlyMonotone(performance_data, -1)
    /\ RatLess(trend_result.trend_slope, Zero)
    /\ RatLess(trend_result.predicted_values[10], trend_result.predicted_values[1])

\* every sample of the collection has the same value
Constant(d) == \A a, b \in DOMAIN d.rows : d.rows[a].value = d.rows[b].value

\* C22: for a constant-valued series (every sample equal) analyze_cpu_trends
\* reports a fitted slope of approximately zero (within 1/10, the tolerance
\* of the unit test) and a low R^2, below 0.5.
C22_ConstantSeriesLowRSquared ==
    (CpuAnalysed /\ Constant(performance_data))
    => /\ RatLess(Rat(-1, 10), trend_result.trend_slope)
       /\ RatLess(trend_result.trend_slope, Rat(1, 10))
       /\ IsNumber(trend_result.r_squared)
       /\ RatLess(trend_result.r_squared, Rat(1, 2))

\* The collection holds one extreme value among typical ones: row a is the
\* outlier.
OutlierAt(d, a) ==
    /\ a \in DOMAIN d.rows
    /\ d.rows[a].value \in SpikeValues
    /\ \A b \in DOMAIN d.rows \ {a} : d.rows[b].value < 80

\* a value that is a frame of sample rows
IsFrame(v) == DOMAIN v = {"columns", "rows"}

\* C23: given a series of 10 typical values with one extreme outlier among
\* them, the anomalies returned by analyze_cpu_trends contain the outlier's
\* sample row and no typical sample, a sample being anomalous exactly when
\* its value is below Q1 - 1.5 * IQR or above Q3 + 1.5 * IQR.
C23_AnomaliesHoldTheOutlier ==
    \A a \in DOMAIN performance_data.rows :
        (CpuAnalysed /\ Len(performance_data.rows) >= 10
            /\ OutlierAt(performance_data, a))
        => /\ IsFrame(trend_result.anomalies)
           /\ Range(trend_result.anomalies.rows) = {performance_data.rows[a]}

\* What the method computes before counting: the frame of anomalous rows
\* is the outlier's row alone, and the count returned is its length.
AnomalyCountIsOne ==
    \A a \in DOMAIN performance_data.rows :
        (CpuAnalysed /\ Len(performance_data.rows) >= 10
            /\ OutlierAt(performance_data, a))
        => /\ Range(Anomalies(performance_data)) = {performance_data.rows[a]}
           /\ trend_result.anomalies = Num(1)
           /\ trend_result.anomaly_percentage
                = Rat(100, Len(performance_data.rows))

(***************************************************************************)
(* Further claims about the benchmark harness, checked under               *)
(* SpecBenchmark.                                                          *)
(***************************************************************************)
\* The calling thread of run_load_test starts a query: cursor.execute is
\* entered, at the time the state before the step shows.
LoadQueryStarts == call.method = "load" /\ executed'[0] = executed[0] + 1

\* C25: run_load_test starts no query execution once the elapsed wall-clock
\* time has reached duration_seconds: every query it executes is started
\* while the elapsed time is still below the duration.
C25_NoQueryStartsAfterDuration ==
    [][LoadQueryStarts => now - start_time < call.duration_seconds]_vars

\* What the while test ensures: every pass over the query list, that is
\* every execution of the first query, starts below the duration.
PassStartsBeforeDuration ==
    [][(LoadQueryStarts /\ i = 1)
        => now - start_time < call.duration_seconds]_vars

\* C27: every cursor opened by run_single_query_test, by a worker of
\* run_concurrent_test or by run_load_test has been closed by the time the
\* method returns, both when all executions succeed and when an execution
\* raises; in run_concurrent_test the number of cursors opened equals
\* concurrent_users, one per worker.
C27_CursorsClosedOnReturn ==
    (pc = "returned" /\ call.method \in {"single", "concurrent", "load"})
    => /\ cursors.closed = cursors.opened
       /\ call.method = "concurrent" => cursors.opened = call.concurrent_users

\* When no call raised, every cursor opened has been closed.
CursorsClosedOnSuccess ==
    (pc = "returned" /\ call.method \in {"single", "concurrent", "load"}
        /\ ~IsError(result))
    => /\ cursors.closed = cursors.opened
       /\ call.method = "concurrent" => cursors.opened = call.concurrent_users

\* The timing lists of workers 1..n one after the other, in the order the
\* work items were submitted.
RECURSIVE InSubmissionOrder(_)
InSubmissionOrder(n) ==
    IF n = 0 THEN <<>> ELSE InSubmissionOrder(n - 1) \o workers[n].times

\* How often the value v occurs in the list s.
Occurrences(s, v) == Cardinality({k \in DOMAIN s : s[k] = v})

C30_LoadTestTerminates ==
    (call.method = "load") ~> (Returned("load") /\ result # NoResult)

\* The empty list with a positive duration: the loop has spun until the
\* deadline and the call has returned the error result.
C30_Witness ==
    /\ Returned("load")
    /\ call.queries = <<>>
    /\ call.duration_seconds > 0
    /\ now >= end_time
    /\ IsError(result)

(***************************************************************************)
(* Further claims about the backup operations, checked under               *)
(* SpecBackupOps.                                                          *)
(***************************************************************************)
\* One of the three backup methods has returned a successful result.
BackupSucceeded ==
    /\ BackupReturned
    /\ "success" \in DOMAIN backup_result
    /\ backup_result.success

\* C29: for every configured retention_days >= 0, the backup directory
\* created by a successful backup_oracle_database,
\* backup_sql_server_database or backup_filesystem call still exists when
\* that call returns: the retention cleanup at the end of the call never
\* deletes the backup the same call just produced.
C29_OwnBackupSurvivesCleanup ==
    BackupSucceeded => fs[backup_call.name].kind = "dir"

\* With a retention of at least one day the backup just produced is kept.
OwnBackupSurvivesPositiveRetention ==
    (BackupSucceeded /\ retention_days >= 1) => fs[backup_call.name].kind = "dir"

(***************************************************************************)
(* Further claims about the executor, checked under SpecDatabase.          *)
(***************************************************************************)
\* The block 'BEGIN :result := <function_name>(); END;' for a name, with the
\* result variable as its one bind value.
ResultBlock(name) ==
    [form |-> "BEGIN :result := name(binds); END;", name |-> name, binds |-> 1]

\* C26: for every function name, execute_function called without
\* parameters and without a return type executes a statement that invokes
\* the requested function, the block 'BEGIN :result := <function_name>();
\* END;' with the given name substituted, and returns the value of the
\* bound result variable.
C26_ExecutesRequestedFunction ==
    (/\ db_call.kind = "execute_function"
     /\ db_call.nparams = 0
     /\ ~db_call.return_type
     /\ dpc \in {"returned", "raised"})
    => /\ stmt = ResultBlock(db_call.name)
       /\ dpc = "returned" => db_return.value \in Values

(***************************************************************************)
(* Claims about the analyses and the caller's frame, checked under         *)
(* SpecAnalyzer.                                                           *)
(***************************************************************************)
\* C24: no analysis operation modifies the sample collection its caller
\* passed in: after analyze_cpu_trends, analyze_memory_trends,
\* analyze_disk_trends, predict_future_performance,
\* analyze_query_performance and analyze_resource_usage the caller's
\* collection has the same rows, columns and values as before the call.
C24_CallerCollectionUnchanged == [][performance_data' = performance_data]_vars

\* The operations of TrendAnalyzer, which work on a copy, and
\* analyze_resource_usage leave the caller's collection as it was.
CopyingAnalysesKeepCollection ==
    [][trend_op' # "analyze_query_performance"
        => performance_data' = performance_data]_vars

====
